---- MODULE Spec2Model ----
(***************************************************************************)
(* Semantic-JSON: the canvas compiler (compileCanvasAll), the pure         *)
(* exporter (stripCanvasMetadata) and the importer (importDataToCanvas)    *)
(* of src/src/core, as a state machine whose actions apply the entry       *)
(* points to bounded documents; and the host plugin's compileFile, as a    *)
(* state machine of its steps between awaits on one canvas file.           *)
(*                                                                         *)
(* Strings are sequences of one-character strings so that trim,            *)
(* toLowerCase, localeCompare and the digit test are computed, not         *)
(* assumed.  Nodes and edges are records that carry only the fields the    *)
(* JSON object has ('f' in obj  is  "f" \in DOMAIN obj).                    *)
(***************************************************************************)
EXTENDS Integers, Sequences, FiniteSets, TLC

VARIABLES input, settings, pc, output, second, pure, before,
          file, isCompiling, calls, events, edits

vars == <<input, settings, pc, output, second, pure, before,
          file, isCompiling, calls, events, edits>>

\* the state of a call of an entry point
call == <<input, pc, output, second, pure, before>>

\* the state of the host plugin: the content of the canvas file, the
\* plugin's flag, the executions of compileFile so far, the modify events
\* not yet handled and the number of modifications made from outside
plugin == <<file, isCompiling, calls, events, edits>>

\* no plugin loaded
Unloaded ==
    /\ file = [nothing |-> TRUE]
    /\ isCompiling = FALSE
    /\ calls = <<>>
    /\ events = 0
    /\ edits = 0

-----------------------------------------------------------------------------
(* Strings                                                                 *)

Range(s) == {s[i] : i \in 1..Len(s)}

IsSpace(c) == c \in {" ", "\n"}

IsDigit(c) == c \in {"0", "1", "2", "3", "4", "5", "6", "7", "8", "9"}

RECURSIVE TrimStart(_)
TrimStart(s) == IF s # <<>> /\ IsSpace(Head(s)) THEN TrimStart(Tail(s)) ELSE s

RECURSIVE TrimEnd(_)
TrimEnd(s) ==
    IF s # <<>> /\ IsSpace(s[Len(s)]) THEN TrimEnd(SubSeq(s, 1, Len(s) - 1)) ELSE s

\* String.prototype.trim
Trim(s) == TrimEnd(TrimStart(s))

LowerChar(c) ==
    CASE c = "A" -> "a"
      [] c = "B" -> "b"
      [] c = "G" -> "g"
      [] c = "J" -> "j"
      [] c = "L" -> "l"
      [] c = "N" -> "n"
      [] c = "O" -> "o"
      [] c = "S" -> "s"
      [] c = "T" -> "t"
      [] OTHER -> c

\* String.prototype.toLowerCase
ToLowerCase(s) == [i \in 1..Len(s) |-> LowerChar(s[i])]

\* Collation order of the characters the documents use (white space, then
\* punctuation, then digits, then letters).
Collation ==
    <<" ", "#", "/", "0", "1", "2", "3", "4", "5", "6", "7", "8", "9",
      "a", "b", "c", "d", "e", "f", "g", "h", "n", "t", "u", "z">>

CharRank(c) == CHOOSE i \in 1..Len(Collation) : Collation[i] = c

Sign(n) == IF n < 0 THEN -1 ELSE IF n > 0 THEN 1 ELSE 0

\* String.prototype.localeCompare on lower-case strings: -1, 0 or 1
RECURSIVE localeCompare(_, _)
localeCompare(a, b) ==
    IF a = <<>> THEN (IF b = <<>> THEN 0 ELSE -1)
    ELSE IF b = <<>> THEN 1
    ELSE IF Head(a) # Head(b) THEN Sign(CharRank(Head(a)) - CharRank(Head(b)))
    ELSE localeCompare(Tail(a), Tail(b))

-----------------------------------------------------------------------------
(* shared.ts                                                               *)

Has(obj, f) == f \in DOMAIN obj

\* normalizedId(obj?.f): a missing field is undefined and normalises to ''
normalizedId(obj, f) == IF Has(obj, f) THEN Trim(obj[f]) ELSE <<>>

\* isFiniteNumber(obj?.f) ? obj.f : 0
Num(obj, f) == IF Has(obj, f) THEN obj[f] ELSE 0

\* isCustomColor without the trim
isCustomColorUntrimmed(obj) ==
    /\ Has(obj, "color")
    /\ LET v == obj.color
       IN  v # <<>> /\ ~(\A i \in 1..Len(v) : IsDigit(v[i]))

isCustomColor(obj) ==
    /\ Has(obj, "color")
    /\ LET v == Trim(obj.color)
       IN  v # <<>> /\ ~(\A i \in 1..Len(v) : IsDigit(v[i]))

\* the part of a path after its last '/', the whole path when that is empty
RECURSIVE LastSegment(_)
LastSegment(s) ==
    IF \E i \in 1..Len(s) : s[i] = "/"
    THEN LastSegment(SubSeq(s, 1 + (CHOOSE i \in 1..Len(s) : s[i] = "/"), Len(s)))
    ELSE s

getNodeSortKey(node) ==
    IF node.type = "text" /\ Has(node, "text") THEN Trim(ToLowerCase(node.text))
    ELSE IF node.type = "file" /\ Has(node, "file")
         THEN LET filename == IF LastSegment(node.file) # <<>>
                              THEN LastSegment(node.file) ELSE node.file
              IN  Trim(ToLowerCase(filename))
    ELSE IF node.type = "link" /\ Has(node, "url") THEN Trim(ToLowerCase(node.url))
    ELSE IF node.type = "group" /\ Has(node, "label") THEN Trim(ToLowerCase(node.label))
    ELSE ToLowerCase(normalizedId(node, "id"))

getNodeTypePriority(node) == IF node.type = "link" THEN 1 ELSE 0

getNodeColor(node) == IF Has(node, "color") THEN ToLowerCase(node.color) ELSE <<>>

getEdgeColor(edge) == IF Has(edge, "color") THEN ToLowerCase(edge.color) ELSE <<>>

\* isDirectionalEdge that wants an arrow
isDirectionalEdgeArrowOnly(edge) ==
    \/ (Has(edge, "fromEnd") /\ edge.fromEnd = "arrow")
    \/ (Has(edge, "toEnd") /\ edge.toEnd = "arrow")

isDirectionalEdge(edge) ==
    \/ (Has(edge, "fromEnd") /\ edge.fromEnd = "arrow")
    \/ (Has(edge, "toEnd") /\ edge.toEnd = "arrow")
    \/ (~Has(edge, "toEnd") /\ ~(Has(edge, "fromEnd") /\ edge.fromEnd = "arrow"))

isContainedBy(node, group) ==
    /\ Num(node, "x") >= Num(group, "x")
    /\ Num(node, "y") >= Num(group, "y")
    /\ Num(node, "x") + Num(node, "width") <= Num(group, "x") + Num(group, "width")
    /\ Num(node, "y") + Num(node, "height") <= Num(group, "y") + Num(group, "height")

-----------------------------------------------------------------------------
(* Array.prototype.sort as the engine runs it on arrays shorter than 64    *)
(* elements: the first run is counted (and reversed when strictly          *)
(* descending), the rest is inserted by binary search.  cmp[i][j] is the   *)
(* sign of comparefn(element i, element j); the result is the sequence of  *)
(* original positions in sorted order.                                     *)

Reverse(s) == [i \in 1..Len(s) |-> s[Len(s) + 1 - i]]

RECURSIVE RunLength(_, _, _, _)
RunLength(a, cmp, isDescending, idx) ==
    IF idx > Len(a) THEN idx - 1
    ELSE LET order == cmp[a[idx]][a[idx - 1]]
         IN  IF (isDescending /\ order >= 0) \/ (~isDescending /\ order < 0)
             THEN idx - 1
             ELSE RunLength(a, cmp, isDescending, idx + 1)

RECURSIVE BinarySearch(_, _, _, _, _)
BinarySearch(a, cmp, pivot, left, right) ==
    IF left >= right THEN left
    ELSE LET mid == left + ((right - left) \div 2)
         IN  IF cmp[pivot][a[mid + 1]] < 0
             THEN BinarySearch(a, cmp, pivot, left, mid)
             ELSE BinarySearch(a, cmp, pivot, mid + 1, right)

RECURSIVE BinaryInsertionSort(_, _, _)
BinaryInsertionSort(a, cmp, start) ==
    IF start > Len(a) THEN a
    ELSE LET pivot == a[start]
             left == BinarySearch(a, cmp, pivot, 0, start - 1)
             moved == SubSeq(a, 1, left) \o <<pivot>> \o SubSeq(a, left + 1, start - 1)
                         \o SubSeq(a, start + 1, Len(a))
         IN  BinaryInsertionSort(moved, cmp, start + 1)

ArraySort(n, cmp) ==
    LET a == [i \in 1..n |-> i]
    IN  IF n < 2 THEN a
        ELSE LET isDescending == cmp[2][1] < 0
                 run == RunLength(a, cmp, isDescending, 3)
                 made == IF isDescending
                         THEN Reverse(SubSeq(a, 1, run)) \o SubSeq(a, run + 1, n)
                         ELSE a
             IN  BinaryInsertionSort(made, cmp, run + 1)

-----------------------------------------------------------------------------
(* compiler.ts: buildFlowGroups                                            *)

\* Set.prototype.add on an insertion-ordered set kept as a sequence
SetAdd(s, v) == IF v \in Range(s) THEN s ELSE Append(s, v)

Max(S) == CHOOSE m \in S : \A k \in S : k <= m

NodeIds(nodes) == [i \in 1..Len(nodes) |-> normalizedId(nodes[i], "id")]

\* BuildAdjacency that takes toEnd for an arrow only where it is stated
RECURSIVE BuildAdjacencyStatedToEnd(_, _, _, _)
BuildAdjacencyStatedToEnd(edges, i, idSet, st) ==
    IF i > Len(edges) THEN st
    ELSE LET edge == edges[i]
             from == normalizedId(edge, "fromNode")
             to == normalizedId(edge, "toNode")
             fromArrow == Has(edge, "fromEnd") /\ edge.fromEnd = "arrow"
             toArrow == Has(edge, "toEnd") /\ edge.toEnd = "arrow"
             adj == [st.adjacency EXCEPT ![from] = SetAdd(@, to)]
             adjacency == [adj EXCEPT ![to] = SetAdd(@, from)]
         IN  IF ~(from \in idSet /\ to \in idSet) \/ ~isDirectionalEdge(edge)
             THEN BuildAdjacencyStatedToEnd(edges, i + 1, idSet, st)
             ELSE IF fromArrow /\ toArrow
             THEN BuildAdjacencyStatedToEnd(edges, i + 1, idSet,
                      [st EXCEPT !.adjacency = adjacency])
             ELSE IF fromArrow
             THEN BuildAdjacencyStatedToEnd(edges, i + 1, idSet,
                      [adjacency |-> adjacency,
                       outgoing |-> [st.outgoing EXCEPT ![to] = SetAdd(@, from)],
                       incoming |-> [st.incoming EXCEPT ![from] = SetAdd(@, to)]])
             ELSE BuildAdjacencyStatedToEnd(edges, i + 1, idSet,
                      [adjacency |-> adjacency,
                       outgoing |-> [st.outgoing EXCEPT ![from] = SetAdd(@, to)],
                       incoming |-> [st.incoming EXCEPT ![to] = SetAdd(@, from)]])

\* BuildAdjacency that leaves an edge with arrows on both ends out of the
\* adjacency map as well
RECURSIVE BuildAdjacencyDirectedOnly(_, _, _, _)
BuildAdjacencyDirectedOnly(edges, i, idSet, st) ==
    IF i > Len(edges) THEN st
    ELSE LET edge == edges[i]
             from == normalizedId(edge, "fromNode")
             to == normalizedId(edge, "toNode")
             fromArrow == Has(edge, "fromEnd") /\ edge.fromEnd = "arrow"
             toArrow == ~Has(edge, "toEnd") \/ edge.toEnd = "arrow"
             adj == [st.adjacency EXCEPT ![from] = SetAdd(@, to)]
             adjacency == [adj EXCEPT ![to] = SetAdd(@, from)]
         IN  IF \/ ~(from \in idSet /\ to \in idSet)
                \/ ~isDirectionalEdge(edge)
                \/ (fromArrow /\ toArrow)
             THEN BuildAdjacencyDirectedOnly(edges, i + 1, idSet, st)
             ELSE IF fromArrow
             THEN BuildAdjacencyDirectedOnly(edges, i + 1, idSet,
                      [adjacency |-> adjacency,
                       outgoing |-> [st.outgoing EXCEPT ![to] = SetAdd(@, from)],
                       incoming |-> [st.incoming EXCEPT ![from] = SetAdd(@, to)]])
             ELSE BuildAdjacencyDirectedOnly(edges, i + 1, idSet,
                      [adjacency |-> adjacency,
                       outgoing |-> [st.outgoing EXCEPT ![from] = SetAdd(@, to)],
                       incoming |-> [st.incoming EXCEPT ![to] = SetAdd(@, from)]])

\* adjacency, outgoing and incoming maps after the loop over scopedEdges
RECURSIVE BuildAdjacency(_, _, _, _)
BuildAdjacency(edges, i, idSet, st) ==
    IF i > Len(edges) THEN st
    ELSE LET edge == edges[i]
             from == normalizedId(edge, "fromNode")
             to == normalizedId(edge, "toNode")
             fromArrow == Has(edge, "fromEnd") /\ edge.fromEnd = "arrow"
             toArrow == ~Has(edge, "toEnd") \/ edge.toEnd = "arrow"
             adj == [st.adjacency EXCEPT ![from] = SetAdd(@, to)]
             adjacency == [adj EXCEPT ![to] = SetAdd(@, from)]
         IN  IF ~(from \in idSet /\ to \in idSet) \/ ~isDirectionalEdge(edge)
             THEN BuildAdjacency(edges, i + 1, idSet, st)
             ELSE IF fromArrow /\ toArrow
             THEN BuildAdjacency(edges, i + 1, idSet,
                      [st EXCEPT !.adjacency = adjacency])
             ELSE IF fromArrow
             THEN BuildAdjacency(edges, i + 1, idSet,
                      [adjacency |-> adjacency,
                       outgoing |-> [st.outgoing EXCEPT ![to] = SetAdd(@, from)],
                       incoming |-> [st.incoming EXCEPT ![from] = SetAdd(@, to)]])
             ELSE BuildAdjacency(edges, i + 1, idSet,
                      [adjacency |-> adjacency,
                       outgoing |-> [st.outgoing EXCEPT ![from] = SetAdd(@, to)],
                       incoming |-> [st.incoming EXCEPT ![to] = SetAdd(@, from)]])

\* breadth-first walk of one component from the queue
RECURSIVE ComponentFrom(_, _, _, _)
ComponentFrom(queue, visited, component, adjacency) ==
    IF queue = <<>> THEN [visited |-> visited, component |-> component]
    ELSE LET current == Head(queue)
         IN  IF current = <<>> \/ current \in visited
             THEN ComponentFrom(Tail(queue), visited, component, adjacency)
             ELSE LET seen == visited \cup {current}
                  IN  ComponentFrom(
                          Tail(queue) \o SelectSeq(adjacency[current],
                                                   LAMBDA nb : nb \notin seen),
                          seen, Append(component, current), adjacency)

\* the components of more than one node, in order of discovery
RECURSIVE Components(_, _, _, _)
Components(ids, i, visited, adjacency) ==
    IF i > Len(ids) THEN <<>>
    ELSE IF ids[i] \in visited THEN Components(ids, i + 1, visited, adjacency)
    ELSE LET walk == ComponentFrom(<<ids[i]>>, visited, <<>>, adjacency)
             rest == Components(ids, i + 1, walk.visited, adjacency)
         IN  IF Len(walk.component) > 1 THEN <<walk.component>> \o rest ELSE rest

\* the (y, x) of a node id in nodePositions, missing coordinates reading 0
PosY(nodePositions, id) ==
    IF id \in DOMAIN nodePositions THEN Num(nodePositions[id], "y") ELSE 0

PosX(nodePositions, id) ==
    IF id \in DOMAIN nodePositions THEN Num(nodePositions[id], "x") ELSE 0

\* the lexicographically smallest (y, x) of a component
Anchor(component, nodePositions) ==
    LET P == {<<PosY(nodePositions, id), PosX(nodePositions, id)>> :
                 id \in Range(component)}
    IN  CHOOSE p \in P :
            \A q \in P : p[1] < q[1] \/ (p[1] = q[1] /\ p[2] <= q[2])

FlowOrderGet(flowOrder, id) == IF id \in DOMAIN flowOrder THEN flowOrder[id] ELSE 0

\* Relax that fixes a node's depth, and queues it, on its first visit
RECURSIVE RelaxFirstVisit(_, _, _, _, _)
RelaxFirstVisit(nexts, k, currentDepth, component, st) ==
    IF k > Len(nexts) THEN st
    ELSE LET next == nexts[k]
         IN  IF next \notin Range(component) \/ next \in DOMAIN st.flowOrder
             THEN RelaxFirstVisit(nexts, k + 1, currentDepth, component, st)
             ELSE RelaxFirstVisit(nexts, k + 1, currentDepth, component,
                      [queue |-> Append(st.queue, next),
                       inDegree |-> st.inDegree,
                       flowOrder |-> (next :> currentDepth + 1) @@ st.flowOrder])

\* the loop over outgoing.get(current) of the layering pass
RECURSIVE Relax(_, _, _, _, _)
Relax(nexts, k, currentDepth, component, st) ==
    IF k > Len(nexts) THEN st
    ELSE LET next == nexts[k]
             degree == st.inDegree[next] - 1
             nextDepth == IF FlowOrderGet(st.flowOrder, next) > currentDepth + 1
                          THEN FlowOrderGet(st.flowOrder, next)
                          ELSE currentDepth + 1
         IN  IF next \notin Range(component)
             THEN Relax(nexts, k + 1, currentDepth, component, st)
             ELSE Relax(nexts, k + 1, currentDepth, component,
                      [queue |-> IF degree = 0 THEN Append(st.queue, next) ELSE st.queue,
                       inDegree |-> [st.inDegree EXCEPT ![next] = degree],
                       flowOrder |-> (next :> nextDepth) @@ st.flowOrder])

\* the while loop of the layering pass
RECURSIVE Layer(_, _, _)
Layer(st, outgoing, component) ==
    IF st.queue = <<>> THEN st.flowOrder
    ELSE LET current == Head(st.queue)
         IN  Layer(Relax(outgoing[current], 1,
                         FlowOrderGet(st.flowOrder, current), component,
                         [st EXCEPT !.queue = Tail(st.queue)]),
                   outgoing, component)

\* Residual that gives the nodes the layering pass never reached the
\* largest depth so far
RECURSIVE ResidualAtMaxDepth(_, _, _)
ResidualAtMaxDepth(component, k, flowOrder) ==
    IF k > Len(component) THEN flowOrder
    ELSE IF component[k] \in DOMAIN flowOrder
    THEN ResidualAtMaxDepth(component, k + 1, flowOrder)
    ELSE LET maxDepth == Max({flowOrder[id] : id \in DOMAIN flowOrder} \cup {0})
         IN  ResidualAtMaxDepth(component, k + 1,
                                (component[k] :> maxDepth) @@ flowOrder)

\* nodes the layering pass never reached get (max depth so far) + 1
RECURSIVE Residual(_, _, _)
Residual(component, k, flowOrder) ==
    IF k > Len(component) THEN flowOrder
    ELSE IF component[k] \in DOMAIN flowOrder
    THEN Residual(component, k + 1, flowOrder)
    ELSE LET maxDepth == Max({flowOrder[id] : id \in DOMAIN flowOrder} \cup {0})
         IN  Residual(component, k + 1, (component[k] :> maxDepth + 1) @@ flowOrder)

\* flowOrder after the layering pass: the nodes of in-degree 0 at depth 0,
\* then the while loop
LayeringPass(component, maps) ==
    LET inDegree == [id \in Range(component) |->
                        Cardinality({s \in Range(maps.incoming[id]) :
                                        s \in Range(component)})]
        roots == SelectSeq(component, LAMBDA id : inDegree[id] = 0)
    IN  Layer([queue |-> roots,
               inDegree |-> inDegree,
               flowOrder |-> [id \in Range(roots) |-> 0]],
              maps.outgoing, component)

FlowGroupOf(component, maps, nodePositions) ==
    LET anchor == Anchor(component, nodePositions)
    IN  [nodes |-> component,
         minY |-> anchor[1],
         minX |-> anchor[2],
         flowOrder |-> Residual(component, 1, LayeringPass(component, maps))]

buildFlowGroups(nodes, allEdges, nodePositions) ==
    LET ids == NodeIds(nodes)
        empty == [id \in Range(ids) |-> <<>>]
        maps == BuildAdjacency(allEdges, 1, Range(ids),
                    [adjacency |-> empty, outgoing |-> empty, incoming |-> empty])
        components == Components(ids, 1, {}, maps.adjacency)
    IN  [g \in 1..Len(components) |-> FlowGroupOf(components[g], maps, nodePositions)]

\* nodeToFlowGroup.get(id): the position of the group holding id, 0 for none
GroupOf(flowGroups, id) ==
    IF \E g \in 1..Len(flowGroups) : id \in Range(flowGroups[g].nodes)
    THEN CHOOSE g \in 1..Len(flowGroups) : id \in Range(flowGroups[g].nodes)
    ELSE 0

-----------------------------------------------------------------------------
(* compiler.ts: stableSortByXY and stableEdgeSortByTopology                *)

\* the first comparison of the list that decides, 0 when none does
FirstNonZero(s) ==
    IF \E i \in 1..Len(s) : s[i] # 0
    THEN s[CHOOSE i \in 1..Len(s) : s[i] # 0 /\ \A j \in 1..(i - 1) : s[j] = 0]
    ELSE 0

NodeColorCompare(a, b, s) ==
    IF s.colorSortNodes THEN localeCompare(getNodeColor(a), getNodeColor(b)) ELSE 0

SortKeyCompare(a, b) == localeCompare(getNodeSortKey(a), getNodeSortKey(b))

\* BaselineCompare without the type priority
BaselineCompareNoPriority(a, b, s, isWithinGroup) ==
    FirstNonZero((IF isWithinGroup THEN <<>>
                  ELSE <<Sign(Num(a, "y") - Num(b, "y")),
                         Sign(Num(a, "x") - Num(b, "x"))>>)
                 \o <<NodeColorCompare(a, b, s),
                      SortKeyCompare(a, b)>>)

\* the comparator's tail: within-group branch, then the baseline branch
BaselineCompare(a, b, s, isWithinGroup) ==
    FirstNonZero((IF isWithinGroup THEN <<>>
                  ELSE <<Sign(Num(a, "y") - Num(b, "y")),
                         Sign(Num(a, "x") - Num(b, "x"))>>)
                 \o <<Sign(getNodeTypePriority(a) - getNodeTypePriority(b)),
                      NodeColorCompare(a, b, s),
                      SortKeyCompare(a, b)>>)

\* the comparison function handed to nodes.sort
NodeCompare(a, b, s, flowGroups, isWithinGroup) ==
    LET aId == normalizedId(a, "id")
        bId == normalizedId(b, "id")
        ga == GroupOf(flowGroups, aId)
        gb == GroupOf(flowGroups, bId)
        \* the value returned inside the flowSortNodes block, or none when
        \* control falls out of the block to the comparator's tail
        none == 2
        flow ==
            IF ~s.flowSortNodes THEN none
            ELSE IF ga # 0 /\ gb # 0
            THEN IF ga = gb
                 THEN FirstNonZero(
                          <<Sign(FlowOrderGet(flowGroups[ga].flowOrder, aId)
                                   - FlowOrderGet(flowGroups[gb].flowOrder, bId)),
                            Sign(Num(a, "y") - Num(b, "y")),
                            Sign(Num(a, "x") - Num(b, "x")),
                            NodeColorCompare(a, b, s),
                            SortKeyCompare(a, b)>>)
                 ELSE LET anchors == FirstNonZero(
                              <<Sign(flowGroups[ga].minY - flowGroups[gb].minY),
                                Sign(flowGroups[ga].minX - flowGroups[gb].minX)>>)
                      IN  IF anchors # 0 THEN anchors ELSE none
            ELSE IF ga # 0
            THEN FirstNonZero(<<Sign(flowGroups[ga].minY - Num(b, "y")),
                                Sign(flowGroups[ga].minX - Num(b, "x")),
                                -1>>)
            ELSE IF gb # 0
            THEN FirstNonZero(<<Sign(Num(a, "y") - flowGroups[gb].minY),
                                Sign(Num(a, "x") - flowGroups[gb].minX),
                                1>>)
            ELSE none
    IN  IF flow # none THEN flow
        ELSE BaselineCompare(a, b, s, isWithinGroup)

\* the array with its elements in the order the sort left them
Sorted(array, order) == [k \in 1..Len(array) |-> array[order[k]]]

\* the results of the comparison function on every pair of the array
NodeComparisons(nodes, s, flowGroups, isWithinGroup) ==
    [i \in 1..Len(nodes) |-> [j \in 1..Len(nodes) |->
        NodeCompare(nodes[i], nodes[j], s, flowGroups, isWithinGroup)]]

stableSortByXY(nodes, s, allEdges, nodePositions, isWithinGroup) ==
    Sorted(nodes,
           ArraySort(Len(nodes),
                     NodeComparisons(nodes, s,
                                     IF s.flowSortNodes
                                     THEN buildFlowGroups(nodes, allEdges, nodePositions)
                                     ELSE <<>>,
                                     isWithinGroup)))

\* the comparison function handed to edges.sort
EdgeCompare(a, b, s, flowGroups, nodePositions) ==
    LET aFromId == normalizedId(a, "fromNode")
        bFromId == normalizedId(b, "fromNode")
        aToId == normalizedId(a, "toNode")
        bToId == normalizedId(b, "toNode")
        useFlow == s.flowSortNodes /\ Len(flowGroups) > 0
        Depth(idA, idB) ==
            LET ga == GroupOf(flowGroups, idA)
                gb == GroupOf(flowGroups, idB)
            IN  IF useFlow /\ ga # 0 /\ gb # 0
                THEN Sign(flowGroups[ga].flowOrder[idA] - flowGroups[gb].flowOrder[idB])
                ELSE 0
    IN  FirstNonZero(
            <<Depth(aFromId, bFromId),
              Depth(aToId, bToId),
              Sign(PosY(nodePositions, aFromId) - PosY(nodePositions, bFromId)),
              Sign(PosX(nodePositions, aFromId) - PosX(nodePositions, bFromId)),
              Sign(PosY(nodePositions, aToId) - PosY(nodePositions, bToId)),
              Sign(PosX(nodePositions, aToId) - PosX(nodePositions, bToId)),
              IF s.colorSortEdges
              THEN localeCompare(getEdgeColor(a), getEdgeColor(b)) ELSE 0,
              localeCompare(normalizedId(a, "id"), normalizedId(b, "id"))>>)

\* the results of the comparison function on every pair of the array
EdgeComparisons(edges, s, flowGroups, nodePositions) ==
    [i \in 1..Len(edges) |-> [j \in 1..Len(edges) |->
        EdgeCompare(edges[i], edges[j], s, flowGroups, nodePositions)]]

stableEdgeSortByTopology(edges, nodePositions, s, nodes) ==
    Sorted(edges,
           ArraySort(Len(edges),
                     EdgeComparisons(edges, s,
                                     IF s.flowSortNodes
                                     THEN buildFlowGroups(nodes, edges, nodePositions)
                                     ELSE <<>>,
                                     nodePositions)))

-----------------------------------------------------------------------------
(* compiler.ts: buildHierarchy and flattenHierarchical                     *)

IsGroup(n) == n.type = "group"

\* a.id === b.id on the raw ids
SameRawId(a, b) ==
    /\ Has(a, "id") = Has(b, "id")
    /\ Has(a, "id") => a.id = b.id

\* (group.width || 0) * (group.height || 0)
Area(group) == Num(group, "width") * Num(group, "height")

\* FindParent that lets a later group of equal area replace the parent
RECURSIVE FindParentLastWins(_, _, _, _, _)
FindParentLastWins(node, groups, k, parent, skipSelf) ==
    IF k > Len(groups) THEN parent
    ELSE IF skipSelf /\ SameRawId(node, groups[k])
    THEN FindParentLastWins(node, groups, k + 1, parent, skipSelf)
    ELSE IF /\ isContainedBy(node, groups[k])
            /\ (parent = 0 \/ Area(groups[k]) <= Area(groups[parent]))
    THEN FindParentLastWins(node, groups, k + 1, k, skipSelf)
    ELSE FindParentLastWins(node, groups, k + 1, parent, skipSelf)

\* the scan for the innermost parent: position in groups of the first group
\* of least area that contains the node, 0 for none
RECURSIVE FindParent(_, _, _, _, _)
FindParent(node, groups, k, parent, skipSelf) ==
    IF k > Len(groups) THEN parent
    ELSE IF skipSelf /\ SameRawId(node, groups[k])
    THEN FindParent(node, groups, k + 1, parent, skipSelf)
    ELSE IF /\ isContainedBy(node, groups[k])
            /\ (parent = 0 \/ Area(groups[k]) < Area(groups[parent]))
    THEN FindParent(node, groups, k + 1, k, skipSelf)
    ELSE FindParent(node, groups, k + 1, parent, skipSelf)

\* AddToParents keyed by the parent's raw id, not the trimmed one
RECURSIVE AddToParentsRawKey(_, _, _, _, _)
AddToParentsRawKey(candidates, k, groups, parentMap, skipSelf) ==
    IF k > Len(candidates) THEN parentMap
    ELSE LET parent == FindParent(candidates[k], groups, 1, 0, skipSelf)
             parentId == groups[parent].id
         IN  IF parent = 0
             THEN AddToParentsRawKey(candidates, k + 1, groups, parentMap, skipSelf)
             ELSE AddToParentsRawKey(candidates, k + 1, groups,
                      IF parentId \in DOMAIN parentMap
                      THEN [parentMap EXCEPT ![parentId] = Append(@, candidates[k])]
                      ELSE (parentId :> <<candidates[k]>>) @@ parentMap,
                      skipSelf)

\* parentMap after pushing each of the candidates under its parent
RECURSIVE AddToParents(_, _, _, _, _)
AddToParents(candidates, k, groups, parentMap, skipSelf) ==
    IF k > Len(candidates) THEN parentMap
    ELSE LET parent == FindParent(candidates[k], groups, 1, 0, skipSelf)
             parentId == normalizedId(groups[parent], "id")
         IN  IF parent = 0
             THEN AddToParents(candidates, k + 1, groups, parentMap, skipSelf)
             ELSE AddToParents(candidates, k + 1, groups,
                      IF parentId \in DOMAIN parentMap
                      THEN [parentMap EXCEPT ![parentId] = Append(@, candidates[k])]
                      ELSE (parentId :> <<candidates[k]>>) @@ parentMap,
                      skipSelf)

EmptyMap == [id \in {} |-> <<>>]

buildHierarchy(nodes) ==
    LET groups == SelectSeq(nodes, IsGroup)
        nonGroups == SelectSeq(nodes, LAMBDA n : ~IsGroup(n))
    IN  AddToParents(groups, 1, groups,
            AddToParents(nonGroups, 1, groups, EmptyMap, FALSE), TRUE)

\* the node is in some children list of parentMap
IsChild(n, parentMap) ==
    \E p \in DOMAIN parentMap :
        \E c \in Range(parentMap[p]) : normalizedId(c, "id") = normalizedId(n, "id")

RECURSIVE addNodeAndChildren(_, _, _)
RECURSIVE AddEach(_, _, _, _)
RECURSIVE AddChildren(_, _, _)
RECURSIVE AddChildrenNoResort(_, _, _)

\* st = [result, processed]; env = [parentMap, settings, allEdges, nodePositions]
addNodeAndChildren(node, st, env) ==
    LET nodeId == normalizedId(node, "id")
        pushed == [result |-> Append(st.result, node),
                   processed |-> st.processed \cup {nodeId}]
    IN  IF nodeId \in st.processed THEN st
        ELSE IF IsGroup(node) /\ nodeId \in DOMAIN env.parentMap
        THEN AddChildren(stableSortByXY(env.parentMap[nodeId], env.settings,
                                        env.allEdges, env.nodePositions, TRUE),
                         pushed, env)
        ELSE pushed

\* AddChildren that leaves the child groups in the order of the children
AddChildrenNoResort(children, st, env) ==
    AddEach(SelectSeq(children, IsGroup),
            1,
            AddEach(SelectSeq(children, LAMBDA c : ~IsGroup(c)), 1, st, env),
            env)

\* the sorted children of a group: childNonGroups, then the re-sorted
\* childGroups
AddChildren(children, st, env) ==
    AddEach(stableSortByXY(SelectSeq(children, IsGroup),
                           [env.settings EXCEPT !.colorSortNodes = FALSE],
                           env.allEdges, env.nodePositions, FALSE),
            1,
            AddEach(SelectSeq(children, LAMBDA c : ~IsGroup(c)), 1, st, env),
            env)

AddEach(list, k, st, env) ==
    IF k > Len(list) THEN st
    ELSE AddEach(list, k + 1, addNodeAndChildren(list[k], st, env), env)

\* flattenHierarchical that emits the root groups before the root nodes
flattenHierarchicalGroupsFirst(nodes, parentMap, s, allEdges, nodePositions) ==
    LET groups == SelectSeq(nodes, IsGroup)
        nonGroups == SelectSeq(nodes, LAMBDA n : ~IsGroup(n))
        env == [parentMap |-> parentMap, settings |-> s,
                allEdges |-> allEdges, nodePositions |-> nodePositions]
        start == [result |-> <<>>, processed |-> {}]
    IN  \* rootGroups, then rootNodes
        AddEach(stableSortByXY(
                SelectSeq(nonGroups, LAMBDA n : ~IsChild(n, parentMap)),
                s, allEdges, nodePositions, s.semanticSortOrphans),
            1,
            AddEach(stableSortByXY(
                SelectSeq(groups, LAMBDA g : ~IsChild(g, parentMap)),
                s, allEdges, nodePositions, FALSE),
                1, start, env),
            env).result

flattenHierarchical(nodes, parentMap, s, allEdges, nodePositions) ==
    LET groups == SelectSeq(nodes, IsGroup)
        nonGroups == SelectSeq(nodes, LAMBDA n : ~IsGroup(n))
        env == [parentMap |-> parentMap, settings |-> s,
                allEdges |-> allEdges, nodePositions |-> nodePositions]
        start == [result |-> <<>>, processed |-> {}]
    IN  \* rootNodes, then rootGroups
        AddEach(stableSortByXY(
                SelectSeq(groups, LAMBDA g : ~IsChild(g, parentMap)),
                s, allEdges, nodePositions, FALSE),
            1,
            AddEach(stableSortByXY(
                SelectSeq(nonGroups, LAMBDA n : ~IsChild(n, parentMap)),
                s, allEdges, nodePositions, s.semanticSortOrphans),
                1, start, env),
            env).result

-----------------------------------------------------------------------------
(* compiler.ts: compileCanvasAll                                           *)

Error(text, ids) == [error |-> [text |-> text, ids |-> ids]]

Threw(r) == "error" \in DOMAIN r

Returned(r) == "nodes" \in DOMAIN r

\* ScanNodes with the uniqueness test made on the raw id, not the trimmed one
RECURSIVE ScanNodesRawIds(_, _, _)
ScanNodesRawIds(nodes, i, nodeIds) ==
    IF i > Len(nodes) THEN [nodeIds |-> {Trim(raw) : raw \in nodeIds}]
    ELSE LET id == normalizedId(nodes[i], "id")
         IN  IF id = <<>> THEN Error("node missing id", <<>>)
             ELSE IF nodes[i].id \in nodeIds THEN Error("duplicate node id: ", <<id>>)
             ELSE ScanNodesRawIds(nodes, i + 1, nodeIds \cup {nodes[i].id})

\* the loop over the nodes: the first error, or the set of node ids
RECURSIVE ScanNodes(_, _, _)
ScanNodes(nodes, i, nodeIds) ==
    IF i > Len(nodes) THEN [nodeIds |-> nodeIds]
    ELSE LET id == normalizedId(nodes[i], "id")
         IN  IF id = <<>> THEN Error("node missing id", <<>>)
             ELSE IF id \in nodeIds THEN Error("duplicate node id: ", <<id>>)
             ELSE ScanNodes(nodes, i + 1, nodeIds \cup {id})

\* ScanEdges without the test that toNode is a node id
RECURSIVE ScanEdgesNoToNodeTest(_, _, _, _)
ScanEdgesNoToNodeTest(edges, i, edgeIds, nodeIds) ==
    IF i > Len(edges) THEN [edgeIds |-> edgeIds]
    ELSE LET id == normalizedId(edges[i], "id")
             fromNode == normalizedId(edges[i], "fromNode")
             toNode == normalizedId(edges[i], "toNode")
         IN  IF id = <<>> THEN Error("edge missing id", <<>>)
             ELSE IF id \in edgeIds THEN Error("duplicate edge id: ", <<id>>)
             ELSE IF fromNode = <<>> \/ toNode = <<>>
             THEN Error("edge missing fromNode/toNode", <<id>>)
             ELSE IF fromNode \notin nodeIds
             THEN Error("edge references missing fromNode: ", <<id, fromNode>>)
             ELSE ScanEdgesNoToNodeTest(edges, i + 1, edgeIds \cup {id}, nodeIds)

\* ScanEdges whose missing-toNode message interpolates fromNode
RECURSIVE ScanEdgesWrongReference(_, _, _, _)
ScanEdgesWrongReference(edges, i, edgeIds, nodeIds) ==
    IF i > Len(edges) THEN [edgeIds |-> edgeIds]
    ELSE LET id == normalizedId(edges[i], "id")
             fromNode == normalizedId(edges[i], "fromNode")
             toNode == normalizedId(edges[i], "toNode")
         IN  IF id = <<>> THEN Error("edge missing id", <<>>)
             ELSE IF id \in edgeIds THEN Error("duplicate edge id: ", <<id>>)
             ELSE IF fromNode = <<>> \/ toNode = <<>>
             THEN Error("edge missing fromNode/toNode", <<id>>)
             ELSE IF fromNode \notin nodeIds
             THEN Error("edge references missing fromNode: ", <<id, fromNode>>)
             ELSE IF toNode \notin nodeIds
             THEN Error("edge references missing toNode: ", <<id, fromNode>>)
             ELSE ScanEdgesWrongReference(edges, i + 1, edgeIds \cup {id}, nodeIds)

\* the loop over the edges: the first error, or the set of edge ids
RECURSIVE ScanEdges(_, _, _, _)
ScanEdges(edges, i, edgeIds, nodeIds) ==
    IF i > Len(edges) THEN [edgeIds |-> edgeIds]
    ELSE LET id == normalizedId(edges[i], "id")
             fromNode == normalizedId(edges[i], "fromNode")
             toNode == normalizedId(edges[i], "toNode")
         IN  IF id = <<>> THEN Error("edge missing id", <<>>)
             ELSE IF id \in edgeIds THEN Error("duplicate edge id: ", <<id>>)
             ELSE IF fromNode = <<>> \/ toNode = <<>>
             THEN Error("edge missing fromNode/toNode", <<id>>)
             ELSE IF fromNode \notin nodeIds
             THEN Error("edge references missing fromNode: ", <<id, fromNode>>)
             ELSE IF toNode \notin nodeIds
             THEN Error("edge references missing toNode: ", <<id, toNode>>)
             ELSE ScanEdges(edges, i + 1, edgeIds \cup {id}, nodeIds)

\* nodePositions.set(id, {x: n?.x, y: n?.y}) for every node
NodePositions(nodes) ==
    [id \in Range(NodeIds(nodes)) |->
        LET n == nodes[CHOOSE i \in 1..Len(nodes) :
                         /\ normalizedId(nodes[i], "id") = id
                         /\ \A j \in (i + 1)..Len(nodes) :
                                normalizedId(nodes[j], "id") # id]
        IN  [f \in {"x", "y"} \cap DOMAIN n |-> n[f]]]

compileCanvasAll(in, s) ==
    LET nodeScan == ScanNodes(in.nodes, 1, {})
        edgeScan == ScanEdges(in.edges, 1, {}, nodeScan.nodeIds)
        nodePositions == NodePositions(in.nodes)
        parentMap == buildHierarchy(in.nodes)
    IN  IF Threw(nodeScan) THEN nodeScan
        ELSE IF Threw(edgeScan) THEN edgeScan
        ELSE [nodes |-> flattenHierarchical(in.nodes, parentMap, s, in.edges,
                                            nodePositions),
              edges |-> stableEdgeSortByTopology(in.edges, nodePositions, s,
                                                 in.nodes)]

-----------------------------------------------------------------------------
(* exporter.ts: stripCanvasMetadata                                        *)

IsLabeled(edge) == Has(edge, "label")

\* the relation a labeled edge contributes, naming the other endpoint
Relation(edge, other) ==
    IF isCustomColor(edge)
    THEN [node |-> other, label |-> edge.label, color |-> edge.color]
    ELSE [node |-> other, label |-> edge.label]

\* processLabeledEdges with the two directions keyed by the wrong endpoint
RECURSIVE processLabeledEdgesSwapped(_, _, _, _)
processLabeledEdgesSwapped(labeledEdges, direction, i, nodeEdgesMap) ==
    IF i > Len(labeledEdges) THEN nodeEdgesMap
    ELSE LET edge == labeledEdges[i]
             fromId == normalizedId(edge, "fromNode")
             toId == normalizedId(edge, "toNode")
             key == IF direction = "to" THEN toId ELSE fromId
             out == IF direction = "to" THEN Relation(edge, toId)
                                        ELSE Relation(edge, fromId)
         IN  processLabeledEdgesSwapped(labeledEdges, direction, i + 1,
                 IF key \in DOMAIN nodeEdgesMap
                 THEN [nodeEdgesMap EXCEPT ![key] = Append(@, out)]
                 ELSE (key :> <<out>>) @@ nodeEdgesMap)

RECURSIVE processLabeledEdges(_, _, _, _)
processLabeledEdges(labeledEdges, direction, i, nodeEdgesMap) ==
    IF i > Len(labeledEdges) THEN nodeEdgesMap
    ELSE LET edge == labeledEdges[i]
             fromId == normalizedId(edge, "fromNode")
             toId == normalizedId(edge, "toNode")
             key == IF direction = "to" THEN fromId ELSE toId
             out == IF direction = "to" THEN Relation(edge, toId)
                                        ELSE Relation(edge, fromId)
         IN  processLabeledEdges(labeledEdges, direction, i + 1,
                 IF key \in DOMAIN nodeEdgesMap
                 THEN [nodeEdgesMap EXCEPT ![key] = Append(@, out)]
                 ELSE (key :> <<out>>) @@ nodeEdgesMap)

\* NodeKeep of an export that spreads the node and only filters the colour
NodeKeepSpread(node) ==
    (DOMAIN node \ {"color"}) \cup (IF isCustomColor(node) THEN {"color"} ELSE {})

\* the fields of a node that the export copies
NodeKeep(node) ==
    ({"id", "type", "text", "file", "url", "label"} \cap DOMAIN node)
        \cup (IF isCustomColor(node) THEN {"color"} ELSE {})

StripNode(node, nodeFromEdges, nodeToEdges) ==
    LET nodeId == normalizedId(node, "id")
        stripped == [f \in NodeKeep(node) |-> node[f]]
        withFrom == IF nodeId \in DOMAIN nodeFromEdges
                    THEN ("from" :> nodeFromEdges[nodeId]) @@ stripped
                    ELSE stripped
    IN  IF nodeId \in DOMAIN nodeToEdges
        THEN ("to" :> nodeToEdges[nodeId]) @@ withFrom
        ELSE withFrom

\* the fields of an unlabeled edge that the export copies
EdgeKeep(edge) ==
    ({"id", "fromNode", "toNode"} \cap DOMAIN edge)
        \cup (IF isCustomColor(edge) THEN {"color"} ELSE {})

StripEdge(edge) == [f \in EdgeKeep(edge) |-> edge[f]]

\* shouldStripEdges that wants both flags
shouldStripEdgesBoth(s) == s.flowSort /\ s.stripEdgesWhenFlowSorted

shouldStripEdges(s) == s.flowSort \/ s.stripEdgesWhenFlowSorted

stripCanvasMetadata(in, s) ==
    LET labeledEdges == SelectSeq(in.edges, IsLabeled)
        unlabeledEdges == SelectSeq(in.edges, LAMBDA e : ~IsLabeled(e))
        nodeFromEdges == processLabeledEdges(labeledEdges, "from", 1, EmptyMap)
        nodeToEdges == processLabeledEdges(labeledEdges, "to", 1, EmptyMap)
    IN  [nodes |-> [i \in 1..Len(in.nodes) |->
                       StripNode(in.nodes[i], nodeFromEdges, nodeToEdges)],
         edges |-> IF shouldStripEdges(s) THEN <<>>
                   ELSE [i \in 1..Len(unlabeledEdges) |->
                            StripEdge(unlabeledEdges[i])]]

-----------------------------------------------------------------------------
(* What the two entry points write in place.  An array or object of a call *)
(* is one of the input document's ("input.nodes", "input.edges", "input    *)
(* node", "input edge") or one made during the call ("fresh"); sort and    *)
(* field assignment write to the array or object they are applied to.      *)

\* Array.prototype.filter returns a new array
ArrayFilter(array) == "fresh"

\* a slice that hands back the array itself
ArraySliceAliased(array) == array

\* Array.prototype.slice returns a new array
ArraySlice(array) == "fresh"

\* an object literal is a new object
ObjectLiteral(object) == "fresh"

\* stableSortByXY on an array: the elements of the input's nodes array
\* after the call, which moves them when the array sorted is that array
SortInPlace(isInputArray, nodes, s, allEdges, nodePositions, isWithinGroup) ==
    IF isInputArray
    THEN stableSortByXY(nodes, s, allEdges, nodePositions, isWithinGroup)
    ELSE nodes

\* the input document after compileCanvasAll: the arrays that nodes.sort and
\* edges.sort are applied to are rootNodes, rootGroups, the children lists
\* of parentMap (made empty by buildHierarchy), childGroups and outEdges
compileInPlace(in, s) ==
    LET nodes == "input.nodes"
        edges == "input.edges"
        groups == ArrayFilter(nodes)
        nonGroups == ArrayFilter(nodes)
        rootNodes == ArrayFilter(nonGroups)
        rootGroups == ArrayFilter(groups)
        outEdges == ArraySlice(edges)
        nodeScan == ScanNodes(in.nodes, 1, {})
        edgeScan == ScanEdges(in.edges, 1, {}, nodeScan.nodeIds)
        nodePositions == NodePositions(in.nodes)
    IN  IF Threw(nodeScan) THEN in
        ELSE IF Threw(edgeScan) THEN in
        ELSE [nodes |-> SortInPlace(rootGroups = nodes,
                            SortInPlace(rootNodes = nodes, in.nodes, s, in.edges,
                                        nodePositions, s.semanticSortOrphans),
                            s, in.edges, nodePositions, FALSE),
              edges |-> IF outEdges = edges
                        THEN stableEdgeSortByTopology(in.edges, nodePositions, s,
                                                      in.nodes)
                        ELSE in.edges]

\* the input document after stripCanvasMetadata: the fields are assigned to
\* the object 'stripped' of each node and of each unlabeled edge
stripInPlace(in, s) ==
    LET labeledEdges == SelectSeq(in.edges, IsLabeled)
        nodeFromEdges == processLabeledEdges(labeledEdges, "from", 1, EmptyMap)
        nodeToEdges == processLabeledEdges(labeledEdges, "to", 1, EmptyMap)
    IN  [nodes |-> [i \in 1..Len(in.nodes) |->
                       IF ObjectLiteral("input node") = "input node"
                       THEN StripNode(in.nodes[i], nodeFromEdges, nodeToEdges)
                       ELSE in.nodes[i]],
         edges |-> [i \in 1..Len(in.edges) |->
                       IF /\ ~IsLabeled(in.edges[i])
                          /\ ~shouldStripEdges(s)
                          /\ ObjectLiteral("input edge") = "input edge"
                       THEN StripEdge(in.edges[i])
                       ELSE in.edges[i]]]

-----------------------------------------------------------------------------
(* importer.ts: importDataToCanvas on JSON-Lines sources                   *)

\* String.prototype.split('\n')
RECURSIVE SplitLines(_)
SplitLines(content) ==
    IF \E i \in 1..Len(content) : content[i] = "\n"
    THEN LET i == CHOOSE k \in 1..Len(content) :
                      content[k] = "\n" /\ \A j \in 1..(k - 1) : content[j] # "\n"
         IN  <<SubSeq(content, 1, i - 1)>> \o SplitLines(SubSeq(content, i + 1, Len(content)))
    ELSE <<content>>

\* String.prototype.endsWith
EndsWith(str, suffix) ==
    /\ Len(str) >= Len(suffix)
    /\ SubSeq(str, Len(str) - Len(suffix) + 1, Len(str)) = suffix

\* JSON.parse on the texts the sources are made of: {} and 1, with or
\* without white space around, are JSON (an object as the list of its
\* entries, a number as itself); every other text is a SyntaxError
parseJson(value) ==
    LET text == Trim(value)
    IN  IF text = <<"{", "}">> THEN [value |-> [object |-> <<>>]]
        ELSE IF text = <<"1">> THEN [value |-> [number |-> 1]]
        ELSE [threw |-> "SyntaxError"]

\* one field without key for a scalar, one field per entry for an object
objectToFields(obj) ==
    IF "object" \in DOMAIN obj
    THEN [k \in 1..Len(obj.object) |->
             [key |-> obj.object[k].key, value |-> obj.object[k].value]]
    ELSE <<[value |-> obj]>>

\* the lines of parseJsonl without the filter on blank lines
AllLines(content) == SplitLines(Trim(content))

\* content.trim().split('\n').filter((line) => line.trim())
RecordLines(content) ==
    SelectSeq(SplitLines(Trim(content)), LAMBDA line : Trim(line) # <<>>)

\* the loop of parseJsonl from line i on: the first error, or the cards
RECURSIVE ParseLines(_, _, _)
ParseLines(lines, i, cards) ==
    IF i > Len(lines) THEN [cards |-> cards]
    ELSE LET obj == parseJson(lines[i])
         IN  IF "threw" \in DOMAIN obj THEN Error("Invalid JSON on line ", <<i>>)
             ELSE ParseLines(lines, i + 1,
                      Append(cards, [label |-> <<"Record ", i>>,
                                     fields |-> objectToFields(obj.value)]))

parseJsonl(content) == ParseLines(RecordLines(content), 1, <<>>)

LAYOUT ==
    [cols |-> 6, colSpacing |-> 480, cardWidth |-> 440, nodeWidth |-> 400,
     nodeHeight |-> 60, cardGap |-> 100, groupPadding |-> 20,
     headerHeight |-> 80]

\* String.prototype.startsWith
StartsWith(str, prefix) ==
    /\ Len(str) >= Len(prefix)
    /\ SubSeq(str, 1, Len(prefix)) = prefix

\* String.prototype.includes
Includes(str, part) ==
    \E i \in 1..(Len(str) - Len(part) + 1) :
        SubSeq(str, i, i + Len(part) - 1) = part

\* Number.prototype.toString(radix), radix at most 16, as digits
RECURSIVE NumberToString(_, _)
NumberToString(n, radix) ==
    LET digit == <<SubSeq(<<"0", "1", "2", "3", "4", "5", "6", "7", "8", "9",
                            "a", "b", "c", "d", "e", "f">>,
                          (n % radix) + 1, (n % radix) + 1)[1]>>
    IN  IF n < radix THEN digit ELSE NumberToString(n \div radix, radix) \o digit

\* String.prototype.padStart(targetLength, '0')
RECURSIVE PadStart(_, _)
PadStart(str, targetLength) ==
    IF Len(str) >= targetLength THEN str ELSE PadStart(<<"0">> \o str, targetLength)

\* generateId() when idCounter has the given value
generateId(idCounter) ==
    <<"i", "m", "p", "o", "r", "t", "e", "d", "-">>
        \o PadStart(NumberToString(idCounter, 16), 16)

\* formatValue(value) for a string and for a natural number (the values
\* of the fields the cards are made with)
formatValue(value) ==
    IF "string" \in DOMAIN value
    THEN IF Includes(value.string, <<"\n">>) THEN value.string
         ELSE <<"\"">> \o value.string \o <<"\"">>
    ELSE NumberToString(value.number, 10)

\* the text of the node of a field
FieldText(field) ==
    IF "key" \in DOMAIN field
    THEN <<"*", "*">> \o field.key \o <<"*", "*", ":", " ">> \o formatValue(field.value)
    ELSE formatValue(field.value)

\* what estimateNodeHeight adds for one line; the texts have no grave
\* accent, so the test for a code fence never succeeds and is left out
LineHeight(line) ==
    IF StartsWith(line, <<"#", " ">>) THEN 60
    ELSE IF StartsWith(line, <<"#", "#", " ">>) THEN 50
    ELSE IF \/ StartsWith(line, <<"#", "#", "#", " ">>)
            \/ StartsWith(line, <<"#", "#", "#", "#", " ">>) THEN 45
    ELSE IF Includes(line, <<"!", "[">>) THEN 120
    ELSE IF StartsWith(line, <<">">>) THEN 40
    ELSE IF \/ \E c \in {"-", "*", "+"} : StartsWith(line, <<c>>)
            \/ \E i \in 1..(Len(line) - 1) : IsDigit(line[i]) /\ line[i + 1] = "."
         THEN 35
    ELSE IF Trim(line) = <<>> THEN 20
    ELSE 38

RECURSIVE SumLines(_)
SumLines(lines) ==
    IF lines = <<>> THEN 0 ELSE LineHeight(Head(lines)) + SumLines(Tail(lines))

estimateNodeHeight(text) ==
    Max({LAYOUT.nodeHeight, 50 + SumLines(SplitLines(text))})

\* the loop over card.fields from field k on: the child nodes, top down
\* from nodeY, and the value of nodeY after the last one
RECURSIVE ChildNodes(_, _, _, _, _)
ChildNodes(fields, k, x, nodeY, idCounter) ==
    IF k > Len(fields) THEN [childNodes |-> <<>>, nodeY |-> nodeY]
    ELSE LET text == FieldText(fields[k])
             rest == ChildNodes(fields, k + 1, x,
                                nodeY + estimateNodeHeight(text) + 10, idCounter + 1)
         IN  [childNodes |->
                  <<[id |-> generateId(idCounter), type |-> "text", text |-> text,
                     x |-> x + LAYOUT.groupPadding, y |-> nodeY,
                     width |-> LAYOUT.nodeWidth,
                     height |-> estimateNodeHeight(text)]>> \o rest.childNodes,
              nodeY |-> rest.nodeY]

\* the bottom of a column under a card that forgets the card's height
ColumnBottomGapOnly(y, groupHeight) == y + LAYOUT.cardGap

\* columnBottoms[col] after a card at y of the given height
ColumnBottom(y, groupHeight) == y + groupHeight + LAYOUT.cardGap

\* the group of a card at (x, y) whose children end above nodeY
CardGroup(card, x, y, nodeY, idCounter) ==
    [id |-> generateId(idCounter), type |-> "group", label |-> card.label,
     x |-> x, y |-> y, width |-> LAYOUT.cardWidth,
     height |-> nodeY - y + LAYOUT.groupPadding]

\* the nodes of solitaireLayout for the cards from position i on (i counts
\* from 1): for each card its group, then one text node per field; the ids
\* are generated for the fields first, then for the group.  Colours are not
\* represented.
RECURSIVE LayoutCards(_, _, _, _)
LayoutCards(cards, i, idCounter, columnBottoms) ==
    IF i > Len(cards) THEN <<>>
    ELSE LET col == ((i - 1) % LAYOUT.cols) + 1
             x == (col - 1) * LAYOUT.colSpacing
             y == columnBottoms[col]
             children == ChildNodes(cards[i].fields, 1, x, y + LAYOUT.headerHeight,
                                    idCounter)
             group == CardGroup(cards[i], x, y, children.nodeY,
                                idCounter + Len(cards[i].fields))
         IN  <<group>> \o children.childNodes
                 \o LayoutCards(cards, i + 1, idCounter + Len(cards[i].fields) + 1,
                        [columnBottoms EXCEPT ![col] = ColumnBottom(y, group.height)])

solitaireLayout(cards) ==
    [nodes |-> LayoutCards(cards, 1, 0, [col \in 1..LAYOUT.cols |-> 0]),
     edges |-> <<>>]

\* importDataToCanvas from the cards on
LayoutOrEmpty(cards) ==
    IF Len(cards) = 0 THEN [nodes |-> <<>>, edges |-> <<>>]
    ELSE solitaireLayout(cards)

\* importDataToCanvas(filePath, fileContent) for a path that ends in .jsonl
importDataToCanvas(filePath, fileContent) ==
    IF Threw(parseJsonl(fileContent)) THEN parseJsonl(fileContent)
    ELSE LayoutOrEmpty(parseJsonl(fileContent).cards)

-----------------------------------------------------------------------------
(* main.ts: the plugin's compileFile                                       *)

\* a text that is no JSON
Garbage == [garbage |-> TRUE]

\* the JSON text of a value, written with the given indentation
Text(value, indent) == [value |-> value, indent |-> indent]

\* JSON.stringify(output, null, 2) + '\n'
Stringify(value) == Text(value, "  ")

\* toCanvasNode(value) is not null
IsCanvasNode(value) == Has(value, "id") /\ Has(value, "type")

\* toCanvasEdge(value) is not null
IsCanvasEdge(value) ==
    Has(value, "id") /\ Has(value, "fromNode") /\ Has(value, "toNode")

\* parseCanvasData(raw): JSON.parse throws on a text that is no JSON; the
\* nodes and edges without their string fields are dropped
parseCanvasData(raw) ==
    IF "garbage" \in DOMAIN raw THEN Error("JSON.parse", {})
    ELSE [nodes |-> SelectSeq(raw.value.nodes, IsCanvasNode),
          edges |-> SelectSeq(raw.value.edges, IsCanvasEdge)]

\* the settings compileFile hands to compileCanvasAll
CompileOptions(s) ==
    [colorSortNodes |-> s.colorSortNodes, colorSortEdges |-> s.colorSortEdges,
     flowSortNodes |-> s.flowSortNodes,
     semanticSortOrphans |-> s.semanticSortOrphans]

\* compileCanvasAll on what parseCanvasData returned, the error passed on
CompileParsed(parsed, s) ==
    IF Threw(parsed) THEN parsed ELSE compileCanvasAll(parsed, CompileOptions(s))

\* compileFile from the text read to the decision: the error caught, the
\* early return on serialized === raw, or the text to write
Decide(raw, compiled) ==
    IF Threw(compiled) THEN [outcome |-> "failed"]
    ELSE IF Stringify(compiled) = raw THEN [outcome |-> "same"]
    ELSE [outcome |-> "write", serialized |-> Stringify(compiled)]

\* compileFile whose test of the flag stands inside the try block, so that
\* the finally block runs for the call turned away
compileFileEnterInsideTry(flag) ==
    IF flag THEN [pc |-> "returned", isCompiling |-> FALSE]
    ELSE [pc |-> "reading", isCompiling |-> TRUE]

\* compileFile up to its first await: the call is turned away when the
\* flag is set, else sets the flag and starts to read
compileFileEnter(flag) ==
    IF flag THEN [pc |-> "returned", isCompiling |-> flag]
    ELSE [pc |-> "reading", isCompiling |-> TRUE]

-----------------------------------------------------------------------------
(* Documents and settings the calls are made with                          *)

MaxNodes == 3

MaxEdges == 2

\* the sequences without repetition of at most n elements of S
InjSeqs(S, n) ==
    UNION {{q \in [1..k -> S] : \A i, j \in 1..k : i # j => q[i] # q[j]} :
              k \in 0..n}

Docs(nodePool, edgePool) ==
    {[nodes |-> ns, edges |-> es] :
        ns \in InjSeqs(nodePool, MaxNodes), es \in InjSeqs(edgePool, MaxEdges)}

\* two text cards on the same spot whose sort keys agree, a link, a group G
\* around them, a group H with G's rectangle, two groups D and E of equal
\* area that share a border with the cards, and a group S nested in the others
TextA == [id |-> <<"a">>, type |-> "text", text |-> <<"t">>,
          x |-> 1, y |-> 1, width |-> 1, height |-> 1]

TextB == [id |-> <<"b">>, type |-> "text", text |-> <<"T", " ">>,
          x |-> 1, y |-> 1, width |-> 1, height |-> 1]

LinkC == [id |-> <<"c">>, type |-> "link", url |-> <<"u">>, y |-> 1,
          color |-> <<"3">>]

\* a link on the cards' spot whose key sorts before theirs
LinkZ == [id |-> <<"z">>, type |-> "link", url |-> <<"a">>,
          x |-> 1, y |-> 1, width |-> 1, height |-> 1]

GroupG == [id |-> <<"g">>, type |-> "group", label |-> <<"G">>,
           x |-> 0, y |-> 0, width |-> 3, height |-> 3]

GroupH == [id |-> <<" ", "h">>, type |-> "group",
           x |-> 0, y |-> 0, width |-> 3, height |-> 3]

GroupD == [id |-> <<"d">>, type |-> "group",
           x |-> 0, y |-> 0, width |-> 2, height |-> 4]

GroupE == [id |-> <<"e">>, type |-> "group", color |-> <<"#", "f">>,
           x |-> 0, y |-> 0, width |-> 4, height |-> 2]

GroupS == [id |-> <<"n">>, type |-> "group", label |-> <<"a">>,
           x |-> 1, y |-> 1, width |-> 1, height |-> 1]

CompileNodes == {TextA, TextB, LinkC, LinkZ, GroupG, GroupH, GroupD, GroupE, GroupS}

EdgeAB == [id |-> <<"e", "1">>, fromNode |-> <<"a">>, toNode |-> <<"b">>]

EdgeBA == [id |-> <<"e", "2">>, fromNode |-> <<"b", " ">>, toNode |-> <<"a">>,
           fromEnd |-> "none", toEnd |-> "arrow", color |-> <<"#", "f">>]

EdgeGA == [id |-> <<"e", "3">>, fromNode |-> <<"g">>, toNode |-> <<"a">>,
           fromEnd |-> "arrow", toEnd |-> "none", label |-> <<"g", "o">>]

CompileEdges == {EdgeAB, EdgeBA, EdgeGA}

\* the data model's invariant: ids non-empty and distinct after trimming,
\* every edge endpoint the id of a node
ValidDocument(d) ==
    /\ \A i \in 1..Len(d.nodes) : normalizedId(d.nodes[i], "id") # <<>>
    /\ \A i, j \in 1..Len(d.nodes) :
           i # j => normalizedId(d.nodes[i], "id") # normalizedId(d.nodes[j], "id")
    /\ \A i \in 1..Len(d.edges) : normalizedId(d.edges[i], "id") # <<>>
    /\ \A i, j \in 1..Len(d.edges) :
           i # j => normalizedId(d.edges[i], "id") # normalizedId(d.edges[j], "id")
    /\ \A i \in 1..Len(d.edges) :
           /\ normalizedId(d.edges[i], "fromNode") \in Range(NodeIds(d.nodes))
           /\ normalizedId(d.edges[i], "toNode") \in Range(NodeIds(d.nodes))

DEFAULT_SETTINGS ==
    [colorSortNodes |-> TRUE, colorSortEdges |-> TRUE, flowSortNodes |-> FALSE,
     semanticSortOrphans |-> FALSE, flowSort |-> FALSE,
     stripEdgesWhenFlowSorted |-> TRUE]

\* every combination of the four options compileCanvasAll reads
CompileSettings ==
    {[DEFAULT_SETTINGS EXCEPT !.colorSortNodes = c, !.colorSortEdges = e,
                              !.flowSortNodes = f, !.semanticSortOrphans = o] :
        c \in BOOLEAN, e \in BOOLEAN, f \in BOOLEAN, o \in BOOLEAN}

\* every combination of the two options stripCanvasMetadata reads
StripSettings ==
    {[DEFAULT_SETTINGS EXCEPT !.flowSort = f, !.stripEdgesWhenFlowSorted = e] :
        f \in BOOLEAN, e \in BOOLEAN}

Pending == [pending |-> TRUE]

-----------------------------------------------------------------------------
(* The calls                                                               *)

\* compileCanvasAll({input, settings})
Compile ==
    /\ pc = "ready"
    /\ output' = compileCanvasAll(input, settings)
    /\ input' = compileInPlace(input, settings)
    /\ pc' = "compiled"
    /\ UNCHANGED <<settings, second, pure, before>>
    /\ UNCHANGED plugin

\* compileCanvasAll on the document the first call returned, same settings
Recompile ==
    /\ pc = "compiled"
    /\ Returned(output)
    /\ second' = [input |-> output, result |-> compileCanvasAll(output, settings)]
    /\ pc' = "recompiled"
    /\ UNCHANGED <<input, settings, output, pure, before>>
    /\ UNCHANGED plugin

Swap(q, i, j) == [q EXCEPT ![i] = q[j], ![j] = q[i]]

\* compileCanvasAll on the input with two nodes or two edges exchanged
CompilePermuted ==
    /\ pc = "compiled"
    /\ \E d \in {[input EXCEPT !.nodes = Swap(@, i, j)] :
                    i \in 1..Len(input.nodes), j \in 1..Len(input.nodes)}
              \cup {[input EXCEPT !.edges = Swap(@, i, j)] :
                    i \in 1..Len(input.edges), j \in 1..Len(input.edges)} :
           /\ d # input
           /\ second' = [input |-> d, result |-> compileCanvasAll(d, settings)]
    /\ pc' = "permuted"
    /\ UNCHANGED <<input, settings, output, pure, before>>
    /\ UNCHANGED plugin

\* stripCanvasMetadata(input, settings)
Strip ==
    /\ pc = "ready"
    /\ pure' = stripCanvasMetadata(input, settings)
    /\ input' = stripInPlace(input, settings)
    /\ pc' = "stripped"
    /\ UNCHANGED <<settings, output, second, before>>
    /\ UNCHANGED plugin

\* compile calls on valid documents
Init ==
    /\ input \in {d \in Docs(CompileNodes, CompileEdges) : ValidDocument(d)}
    /\ settings \in CompileSettings
    /\ pc = "ready"
    /\ output = Pending
    /\ second = Pending
    /\ pure = Pending
    /\ before = input
    /\ Unloaded

Next == Compile \/ Recompile

Spec == Init /\ [][Next]_vars

\* the same calls, followed by a call on a reordered input
NextPermuted == Compile \/ CompilePermuted

SpecPermuted == Init /\ [][NextPermuted]_vars

-----------------------------------------------------------------------------
(* Compile calls on documents that may break the integrity rules           *)

CardA == [id |-> <<"a">>, type |-> "text", text |-> <<"t">>,
          x |-> 0, y |-> 0, width |-> 1, height |-> 1]

CardA2 == [id |-> <<" ", "a">>, type |-> "text", text |-> <<"b">>,
           x |-> 0, y |-> 2, width |-> 1, height |-> 1]

CardB == [id |-> <<"b">>, type |-> "group", x |-> 0, y |-> 0, width |-> 2, height |-> 2]

CardBlank == [id |-> <<" ">>, type |-> "text", x |-> 0, y |-> 0]

ValidateNodes == {CardA, CardA2, CardB, CardBlank}

EdgeOk == [id |-> <<"e", "1">>, fromNode |-> <<"a">>, toNode |-> <<"b">>]

EdgeDup == [id |-> <<"e", "1">>, fromNode |-> <<"z">>, toNode |-> <<"a">>,
            label |-> <<"g", "o">>]

EdgeNoId == [id |-> <<" ">>, fromNode |-> <<"a">>, toNode |-> <<"a">>]

EdgeNoFrom == [id |-> <<"e", "2">>, fromNode |-> <<" ">>, toNode |-> <<"z">>]

EdgeDangling == [id |-> <<"e", "3">>, fromNode |-> <<"a">>, toNode |-> <<"z">>]

EdgeDanglingFrom == [id |-> <<"e", "4">>, fromNode |-> <<"z">>, toNode |-> <<"h">>]

ValidateEdges == {EdgeOk, EdgeDup, EdgeNoId, EdgeNoFrom, EdgeDangling, EdgeDanglingFrom}

InitValidate ==
    /\ input \in Docs(ValidateNodes, ValidateEdges)
    /\ settings \in CompileSettings
    /\ pc = "ready"
    /\ output = Pending
    /\ second = Pending
    /\ pure = Pending
    /\ before = input
    /\ Unloaded

NextValidate == Compile

SpecValidate == InitValidate /\ [][NextValidate]_vars

-----------------------------------------------------------------------------
(* Export calls                                                            *)

PureA == [id |-> <<"a">>, type |-> "text", text |-> <<"A">>, color |-> <<"#", "f">>,
          x |-> 0, y |-> 0, width |-> 2, height |-> 1]

PureB == [id |-> <<" ", "b">>, type |-> "file", file |-> <<"d", "/", "f">>,
          color |-> <<"3">>, x |-> 0, y |-> 2, width |-> 2, height |-> 1]

PureG == [id |-> <<"g">>, type |-> "group", label |-> <<"G">>, color |-> <<" ">>,
          x |-> 0, y |-> 0, width |-> 4, height |-> 4]

PureC == [id |-> <<"c">>, type |-> "link", url |-> <<"u">>,
          color |-> <<" ", "f", "3", " ">>]

ExportNodes == {PureA, PureB, PureG, PureC}

RelAB == [id |-> <<"e", "1">>, fromNode |-> <<"a">>, toNode |-> <<"b", " ">>,
          label |-> <<"g", "o">>, color |-> <<"#", "f">>]

RelAG == [id |-> <<"e", "2">>, fromNode |-> <<"a">>, toNode |-> <<"g">>,
          label |-> <<"t", "o">>, color |-> <<"3">>, toEnd |-> "arrow"]

RelBA == [id |-> <<"e", "3">>, fromNode |-> <<"b">>, toNode |-> <<"a">>,
          label |-> <<>>]

PlainAB == [id |-> <<"e", "4">>, fromNode |-> <<"a">>, toNode |-> <<"b">>,
            color |-> <<"#", "f">>, fromEnd |-> "none"]

PlainGZ == [id |-> <<" ", "e", "5">>, fromNode |-> <<"g">>, toNode |-> <<"z">>,
            color |-> <<" ", "3">>]

PlainBG == [id |-> <<"e", "6">>, fromNode |-> <<"b">>, toNode |-> <<"g">>,
            color |-> <<"3", " ", "3">>]

ExportEdges == {RelAB, RelAG, RelBA, PlainAB, PlainGZ, PlainBG}

InitExport ==
    /\ input \in Docs(ExportNodes, ExportEdges)
    /\ settings \in StripSettings
    /\ pc = "ready"
    /\ output = Pending
    /\ second = Pending
    /\ pure = Pending
    /\ before = input
    /\ Unloaded

NextExport == Strip

SpecExport == InitExport /\ [][NextExport]_vars

-----------------------------------------------------------------------------
(* Compile calls with flow-aware sorting on documents with arrows          *)

MaxFlowEdges == 3

\* a card on top, three cards on the next row (two of them on the same spot,
\* their colours ordered against their ids) and a group around that row
FlowA == [id |-> <<"a">>, type |-> "text", x |-> 0, y |-> 0]

FlowB == [id |-> <<"b">>, type |-> "text", x |-> 1, y |-> 1]

FlowC == [id |-> <<"c">>, type |-> "text", x |-> 0, y |-> 1, color |-> <<"2">>]

FlowD == [id |-> <<"d">>, type |-> "text", x |-> 0, y |-> 1, color |-> <<"1">>]

FlowBox == [id |-> <<"g">>, type |-> "group", x |-> 0, y |-> 1, width |-> 2, height |-> 1]

FlowNodes == {FlowA, FlowB, FlowC, FlowD, FlowBox}

\* a -> b, b -> c, a -> c, c -> a, b -> a (arrow on the from side), c <-> d and
\* a line between a and c without arrows
ArrowAB == [id |-> <<"e", "1">>, fromNode |-> <<"a">>, toNode |-> <<"b">>]

ArrowBC == [id |-> <<"e", "2">>, fromNode |-> <<"b">>, toNode |-> <<"c">>,
            toEnd |-> "arrow"]

ArrowAC == [id |-> <<"e", "3">>, fromNode |-> <<"a">>, toNode |-> <<"c">>,
            fromEnd |-> "none", toEnd |-> "arrow"]

ArrowCA == [id |-> <<"e", "4">>, fromNode |-> <<"c">>, toNode |-> <<"a">>,
            toEnd |-> "arrow"]

ArrowBackAB == [id |-> <<"e", "5">>, fromNode |-> <<"a">>, toNode |-> <<"b">>,
                fromEnd |-> "arrow", toEnd |-> "none"]

ArrowBothCD == [id |-> <<"e", "6">>, fromNode |-> <<"c">>, toNode |-> <<"d">>,
                fromEnd |-> "arrow", toEnd |-> "arrow"]

LineAC == [id |-> <<"e", "7">>, fromNode |-> <<"a">>, toNode |-> <<"c">>,
           fromEnd |-> "none", toEnd |-> "none"]

\* an arrow from d to d itself
LoopD == [id |-> <<"e", "9">>, fromNode |-> <<"d">>, toNode |-> <<"d">>]

FlowEdges ==
    {ArrowAB, ArrowBC, ArrowAC, ArrowCA, ArrowBackAB, ArrowBothCD, LineAC, LoopD}

FlowDocs ==
    {[nodes |-> ns, edges |-> es] :
        ns \in InjSeqs(FlowNodes, MaxNodes), es \in InjSeqs(FlowEdges, MaxFlowEdges)}

InitFlow ==
    /\ input \in {d \in FlowDocs : ValidDocument(d)}
    /\ settings \in {s \in CompileSettings : s.flowSortNodes}
    /\ pc = "ready"
    /\ output = Pending
    /\ second = Pending
    /\ pure = Pending
    /\ before = input
    /\ Unloaded

NextFlow == Compile

SpecFlow == InitFlow /\ [][NextFlow]_vars

-----------------------------------------------------------------------------
(* Compile calls with flow-aware sorting on documents with two flows       *)

MaxAnchorNodes == 4

\* a card below the row of b, c and d
FlowE == [id |-> <<"e">>, type |-> "text", x |-> 1, y |-> 2]

AnchorNodes == {FlowB, FlowC, FlowD, FlowE}

ArrowDE == [id |-> <<"e", "8">>, fromNode |-> <<"d">>, toNode |-> <<"e">>]

\* b -> c and d -> e: two flows whose topmost, leftmost cards c and d share
\* a spot; c <-> d joins them
AnchorEdges == {ArrowBC, ArrowDE, ArrowBothCD}

AnchorDocs ==
    {[nodes |-> ns, edges |-> es] :
        ns \in InjSeqs(AnchorNodes, MaxAnchorNodes),
        es \in InjSeqs(AnchorEdges, MaxEdges)}

InitAnchor ==
    /\ input \in {d \in AnchorDocs : ValidDocument(d)}
    /\ settings \in {s \in CompileSettings : s.flowSortNodes /\ s.colorSortEdges}
    /\ pc = "ready"
    /\ output = Pending
    /\ second = Pending
    /\ pure = Pending
    /\ before = input
    /\ Unloaded

NextAnchor == Compile

SpecAnchor == InitAnchor /\ [][NextAnchor]_vars

-----------------------------------------------------------------------------
(* Calls of isDirectionalEdge on edges with every pair of endpoint styles  *)

EndStyles == {"absent", "none", "arrow"}

\* an edge from a to b whose fromEnd and toEnd are given, or left out
EdgeWithEnds(from, to) ==
    LET base == [id |-> <<"e", "1">>, fromNode |-> <<"a">>, toNode |-> <<"b">>]
        withFrom == IF from = "absent" THEN base ELSE ("fromEnd" :> from) @@ base
    IN  IF to = "absent" THEN withFrom ELSE ("toEnd" :> to) @@ withFrom

StyledEdges == {EdgeWithEnds(from, to) : from \in EndStyles, to \in EndStyles}

\* isDirectionalEdge(edge) for each edge of the input
Classify ==
    /\ pc = "ready"
    /\ pure' = [k \in 1..Len(input.edges) |-> isDirectionalEdge(input.edges[k])]
    /\ pc' = "classified"
    /\ UNCHANGED <<input, settings, output, second, before>>
    /\ UNCHANGED plugin

InitClassify ==
    /\ input \in Docs({}, StyledEdges)
    /\ settings = DEFAULT_SETTINGS
    /\ pc = "ready"
    /\ output = Pending
    /\ second = Pending
    /\ pure = Pending
    /\ before = input
    /\ Unloaded

NextClassify == Classify

SpecClassify == InitClassify /\ [][NextClassify]_vars

-----------------------------------------------------------------------------
(* Compile calls with flow-aware sorting on edges of every endpoint style  *)

\* an edge between a and b with the given id, direction and endpoint styles
StyledEdge(id, from, to, fromEnd, toEnd) ==
    LET base == [id |-> id, fromNode |-> from, toNode |-> to]
        withFrom == IF fromEnd = "absent" THEN base
                    ELSE ("fromEnd" :> fromEnd) @@ base
    IN  IF toEnd = "absent" THEN withFrom ELSE ("toEnd" :> toEnd) @@ withFrom

\* e1 from a to b and e2 from b to a, in every pair of endpoint styles
DirectionEdges ==
    {StyledEdge(<<"e", "1">>, <<"a">>, <<"b">>, f, t) : f \in EndStyles, t \in EndStyles}
    \cup {StyledEdge(<<"e", "2">>, <<"b">>, <<"a">>, f, t) : f \in EndStyles, t \in EndStyles}

DirectionDocs ==
    {[nodes |-> ns, edges |-> es] :
        ns \in {<<FlowA, FlowB>>, <<FlowB, FlowA>>},
        es \in InjSeqs(DirectionEdges, MaxEdges)}

InitDirection ==
    /\ input \in {d \in DirectionDocs : ValidDocument(d)}
    /\ settings \in {s \in CompileSettings : s.flowSortNodes /\ s.colorSortEdges}
    /\ pc = "ready"
    /\ output = Pending
    /\ second = Pending
    /\ pure = Pending
    /\ before = input
    /\ Unloaded

NextDirection == Compile

SpecDirection == InitDirection /\ [][NextDirection]_vars

-----------------------------------------------------------------------------
(* Compile calls on documents with edges inside and outside flow groups    *)

\* an arrow from b to a
ArrowBA == [id |-> <<"e", "0">>, fromNode |-> <<"b">>, toNode |-> <<"a">>]

\* b -> a stated from either side, a -> b, the arrow from d to itself and the
\* line between a and c
TopologyEdges == {ArrowBackAB, ArrowBA, ArrowAB, LoopD, LineAC}

TopologyDocs ==
    {[nodes |-> ns, edges |-> es] :
        ns \in InjSeqs({FlowA, FlowB, FlowC, FlowD}, MaxNodes),
        es \in InjSeqs(TopologyEdges, MaxFlowEdges)}

InitTopology ==
    /\ input \in {d \in TopologyDocs : ValidDocument(d)}
    /\ settings \in {s \in CompileSettings : s.colorSortNodes /\ ~s.semanticSortOrphans}
    /\ pc = "ready"
    /\ output = Pending
    /\ second = Pending
    /\ pure = Pending
    /\ before = input
    /\ Unloaded

NextTopology == Compile

SpecTopology == InitTopology /\ [][NextTopology]_vars

-----------------------------------------------------------------------------
(* Compile calls on a group with cards, a link and groups inside           *)

\* a frame around everything
WithinBox == [id |-> <<"g">>, type |-> "group", x |-> 0, y |-> 0,
              width |-> 9, height |-> 9]

\* three cards: the texts, the colours and the places order them differently
WithinCardB == [id |-> <<"a">>, type |-> "text", text |-> <<"b">>, color |-> <<"2">>,
                x |-> 1, y |-> 1, width |-> 1, height |-> 1]

WithinCardA == [id |-> <<"b">>, type |-> "text", text |-> <<"a">>, color |-> <<"3">>,
                x |-> 2, y |-> 2, width |-> 1, height |-> 1]

WithinCardC == [id |-> <<"c">>, type |-> "text", text |-> <<"c">>, color |-> <<"1">>,
                x |-> 1, y |-> 2, width |-> 1, height |-> 1]

\* a link in the top left corner whose url sorts first
WithinLink == [id |-> <<"d">>, type |-> "link", url |-> <<"a">>,
               x |-> 0, y |-> 0, width |-> 1, height |-> 1]

\* three groups none of which holds another: two on the same spot, their
\* colours ordered against their labels, and one further down whose label
\* and colour sort first
WithinGroupZ == [id |-> <<"n">>, type |-> "group", label |-> <<"z">>, color |-> <<"2">>,
                 x |-> 5, y |-> 5, width |-> 1, height |-> 2]

WithinGroupB == [id |-> <<"u">>, type |-> "group", label |-> <<"b">>, color |-> <<"3">>,
                 x |-> 5, y |-> 5, width |-> 2, height |-> 1]

WithinGroupA == [id |-> <<"z">>, type |-> "group", label |-> <<"a">>, color |-> <<"1">>,
                 x |-> 7, y |-> 7, width |-> 1, height |-> 1]

WithinNodes ==
    {WithinBox, WithinCardA, WithinCardB, WithinCardC, WithinLink,
     WithinGroupZ, WithinGroupB, WithinGroupA}

InitWithin ==
    /\ input \in {d \in Docs(WithinNodes, {}) : ValidDocument(d)}
    /\ settings \in {s \in CompileSettings : ~s.flowSortNodes /\ s.colorSortEdges}
    /\ pc = "ready"
    /\ output = Pending
    /\ second = Pending
    /\ pure = Pending
    /\ before = input
    /\ Unloaded

NextWithin == Compile

SpecWithin == InitWithin /\ [][NextWithin]_vars

-----------------------------------------------------------------------------
(* Each entry point called twice on the same document                      *)

\* compileCanvasAll once more on the same input object
CompileAgain ==
    /\ pc = "compiled"
    /\ second' = [input |-> input, result |-> compileCanvasAll(input, settings)]
    /\ input' = compileInPlace(input, settings)
    /\ pc' = "compiled twice"
    /\ UNCHANGED <<settings, output, pure, before>>
    /\ UNCHANGED plugin

\* stripCanvasMetadata once more on the same input object
StripAgain ==
    /\ pc = "stripped"
    /\ second' = [input |-> input, result |-> stripCanvasMetadata(input, settings)]
    /\ input' = stripInPlace(input, settings)
    /\ pc' = "stripped twice"
    /\ UNCHANGED <<settings, output, pure, before>>
    /\ UNCHANGED plugin

InitFrame ==
    /\ input \in {d \in Docs(CompileNodes, CompileEdges) : ValidDocument(d)}
    /\ settings \in CompileSettings \cup StripSettings
    /\ pc = "ready"
    /\ output = Pending
    /\ second = Pending
    /\ pure = Pending
    /\ before = input
    /\ Unloaded

NextFrame == Compile \/ CompileAgain \/ Strip \/ StripAgain

SpecFrame == InitFrame /\ [][NextFrame]_vars

-----------------------------------------------------------------------------
(* Import calls on JSON-Lines sources                                      *)

MaxLines == 3

\* {} and 1 between blanks are JSON, {n} and } are not, the last two lines
\* are blank
SourceLines ==
    {<<"{", "}">>, <<" ", "1", " ">>, <<"{", "n", "}">>, <<"}">>, <<>>, <<" ">>}

JsonlPaths ==
    {<<"a", ".", "j", "s", "o", "n", "l">>, <<"A", ".", "J", "S", "O", "N", "L">>}

\* the lines joined by line feeds
RECURSIVE JoinLines(_)
JoinLines(lines) ==
    IF lines = <<>> THEN <<>>
    ELSE IF Len(lines) = 1 THEN lines[1]
    ELSE lines[1] \o <<"\n">> \o JoinLines(Tail(lines))

\* importDataToCanvas(input.filePath, input.fileContent)
Import ==
    /\ pc = "ready"
    /\ EndsWith(ToLowerCase(input.filePath), <<".", "j", "s", "o", "n", "l">>)
    /\ output' = importDataToCanvas(input.filePath, input.fileContent)
    /\ pc' = "imported"
    /\ UNCHANGED <<input, settings, second, pure, before>>
    /\ UNCHANGED plugin

\* sources of at most MaxLines lines, with or without a final line feed
InitImport ==
    /\ \E lines \in UNION {[1..n -> SourceLines] : n \in 0..MaxLines} :
           \E end \in {<<>>, <<"\n">>} : \E path \in JsonlPaths :
               input = [filePath |-> path, lines |-> lines,
                        fileContent |-> JoinLines(lines) \o end]
    /\ settings = DEFAULT_SETTINGS
    /\ pc = "ready"
    /\ output = Pending
    /\ second = Pending
    /\ pure = Pending
    /\ before = input
    /\ Unloaded

NextImport == Import

SpecImport == InitImport /\ [][NextImport]_vars

-----------------------------------------------------------------------------
(* The plugin on one canvas file: commands, modify events, modifications   *)
(* made from outside, and the steps of compileFile between its awaits      *)

MaxCalls == 4

MaxEdits == 2

MaxCommands == 1

\* documents the file may hold: one in compiled form, one whose nodes
\* compile moves, one whose groups cross, one with a repeated id
PluginDocs ==
    {[nodes |-> <<TextA>>, edges |-> <<>>],
     [nodes |-> <<LinkZ, TextA>>, edges |-> <<>>],
     [nodes |-> <<LinkC, GroupE, GroupD>>, edges |-> <<>>],
     [nodes |-> <<TextA, TextA>>, edges |-> <<>>]}

\* the texts of a set of documents, indented as compileFile writes them or
\* as the canvas editor does
Texts(docs) == {Text(d, indent) : d \in docs, indent \in {"  ", "\t"}}

FileContents == Texts(PluginDocs) \cup {Garbage}

ValidContents == Texts({d \in PluginDocs : ValidDocument(d)})

PluginSettings ==
    {[autoCompile |-> a, colorSortNodes |-> c, colorSortEdges |-> TRUE,
      flowSortNodes |-> FALSE, semanticSortOrphans |-> FALSE] :
        a \in BOOLEAN, c \in BOOLEAN}

\* the executions of compileFile between its guard and its finally block
Executing == {i \in 1..Len(calls) : calls[i].pc \in {"reading", "writing", "written"}}

\* a call of compileFile(file, showNotice): the flag is tested and set
\* before the first await
compileFile(showNotice) ==
    /\ Len(calls) < MaxCalls
    /\ calls' = Append(calls, [showNotice |-> showNotice,
                               busy |-> Executing # {},
                               pc |-> compileFileEnter(isCompiling).pc,
                               raw |-> [nothing |-> TRUE],
                               serialized |-> [nothing |-> TRUE],
                               replaced |-> [nothing |-> TRUE]])
    /\ isCompiling' = compileFileEnter(isCompiling).isCompiling

\* the command 'compile active canvas': compileActive on the canvas file
CompileActive ==
    /\ Cardinality({i \in 1..Len(calls) : calls[i].showNotice}) < MaxCommands
    /\ compileFile(TRUE)
    /\ UNCHANGED <<file, events, edits, settings, call>>

\* the vault's modify handler takes the next event
OnModify ==
    /\ events > 0
    /\ events' = events - 1
    /\ IF settings.autoCompile
          THEN compileFile(FALSE)
          ELSE UNCHANGED <<calls, isCompiling>>
    /\ UNCHANGED <<file, edits, settings, call>>

\* vault.read resolves: compileFile runs on to its next await, which is the
\* call of vault.modify, or to its end through the finally block
ReadDone(i, decision) ==
    /\ calls[i].pc = "reading"
    /\ IF decision.outcome = "write"
          THEN /\ calls' = [calls EXCEPT ![i].pc = "writing", ![i].raw = file,
                                         ![i].serialized = decision.serialized]
               /\ UNCHANGED isCompiling
          ELSE /\ calls' = [calls EXCEPT ![i].pc = decision.outcome, ![i].raw = file]
               /\ isCompiling' = FALSE
    /\ UNCHANGED <<file, events, edits, settings, call>>

\* vault.modify stores the text; the vault raises a modify event
WriteDone(i) ==
    /\ calls[i].pc = "writing"
    /\ file' = calls[i].serialized
    /\ events' = events + 1
    /\ calls' = [calls EXCEPT ![i].pc = "written", ![i].replaced = file]
    /\ UNCHANGED <<isCompiling, edits, settings, call>>

\* vault.modify resolves: compileFile ends through the finally block
Finish(i) ==
    /\ calls[i].pc = "written"
    /\ calls' = [calls EXCEPT ![i].pc = "compiled"]
    /\ isCompiling' = FALSE
    /\ UNCHANGED <<file, events, edits, settings, call>>

\* the file is modified from outside the plugin; the vault raises a modify
\* event
Edit(contents) ==
    /\ edits < MaxEdits
    /\ file' \in contents \ {file}
    /\ events' = events + 1
    /\ edits' = edits + 1
    /\ UNCHANGED <<isCompiling, calls, settings, call>>

\* what compileFile makes of the text it has read
Decision(raw, s) == Decide(raw, CompileParsed(parseCanvasData(raw), s))

\* the texts compileFile writes for the given texts, added to them
Rewritten(texts, s) ==
    texts \cup {Decision(t, s).serialized :
                   t \in {u \in texts : Decision(u, s).outcome = "write"}}

\* the texts MaxCalls calls of compileFile can make of the given texts
RECURSIVE Reachable(_, _, _)
Reachable(texts, s, fuel) ==
    IF fuel = 0 THEN texts ELSE Reachable(Rewritten(texts, s), s, fuel - 1)

\* compileFile's decision for every text the file can hold, under every
\* choice of settings
Decisions ==
    [s \in PluginSettings |->
        [t \in Reachable(FileContents, s, MaxCalls) |-> Decision(t, s)]]

Read == \E i \in 1..Len(calls) : ReadDone(i, Decisions[settings][file])

Write == \E i \in 1..Len(calls) : WriteDone(i)

Return == \E i \in 1..Len(calls) : Finish(i)

EditAny == Edit(FileContents)

InitPlugin ==
    /\ input = Pending
    /\ pc = "loaded"
    /\ output = Pending
    /\ second = Pending
    /\ pure = Pending
    /\ before = Pending
    /\ settings \in PluginSettings
    /\ file \in FileContents
    /\ isCompiling = FALSE
    /\ calls = <<>>
    /\ events = 0
    /\ edits = 0

NextPlugin == CompileActive \/ OnModify \/ Read \/ Write \/ Return \/ EditAny

SpecPlugin == InitPlugin /\ [][NextPlugin]_vars

\* auto-compile on a valid canvas file modified from outside once: no
\* command, and every step of the plugin that can be taken is taken in the
\* end (the event loop handles every event raised and every promise of the
\* vault settles)
EditOnce == edits = 0 /\ Edit(ValidContents)

InitAuto ==
    /\ input = Pending
    /\ pc = "loaded"
    /\ output = Pending
    /\ second = Pending
    /\ pure = Pending
    /\ before = Pending
    /\ settings \in {s \in PluginSettings : s.autoCompile}
    /\ file \in ValidContents
    /\ isCompiling = FALSE
    /\ calls = <<>>
    /\ events = 0
    /\ edits = 0

NextAuto == EditOnce \/ OnModify \/ Read \/ Write \/ Return

SpecAuto ==
    /\ InitAuto
    /\ [][NextAuto]_vars
    /\ WF_vars(OnModify)
    /\ WF_vars(Read)
    /\ WF_vars(Write)
    /\ WF_vars(Return)

-----------------------------------------------------------------------------
(* The layout of up to MaxCards cards                                      *)

MaxCards == 7

\* a card without fields, a card with one short text, a card with a keyed
\* number and a text of two lines, a heading and an image
CardKinds ==
    {[label |-> <<"e">>, fields |-> <<>>],
     [label |-> <<"o">>, fields |-> <<[value |-> [string |-> <<"t">>]]>>],
     [label |-> <<"w">>,
      fields |-> <<[key |-> <<"k">>, value |-> [number |-> 1]],
                   [value |-> [string |-> <<"#", " ", "h", "\n", "!", "[">>]]>>]}

\* importDataToCanvas once the cards are parsed
Layout ==
    /\ pc = "ready"
    /\ output' = LayoutOrEmpty(input.cards)
    /\ pc' = "laid out"
    /\ UNCHANGED <<input, settings, second, pure, before>>
    /\ UNCHANGED plugin

InitLayout ==
    /\ \E cards \in UNION {[1..n -> CardKinds] : n \in 0..MaxCards} :
           input = [cards |-> cards]
    /\ settings = DEFAULT_SETTINGS
    /\ pc = "ready"
    /\ output = Pending
    /\ second = Pending
    /\ pure = Pending
    /\ before = input
    /\ Unloaded

NextLayout == Layout

SpecLayout == InitLayout /\ [][NextLayout]_vars

-----------------------------------------------------------------------------
(* Properties of compile on valid documents                                *)

\* b holds the elements of a, each as many times as a does
IsPermutation(a, b) ==
    /\ Len(a) = Len(b)
    /\ \A v \in Range(a) \cup Range(b) :
           Cardinality({i \in 1..Len(a) : a[i] = v})
               = Cardinality({i \in 1..Len(b) : b[i] = v})

\* C1: compiling the compiled document again, with the same settings,
\* returns the same node sequence and the same edge sequence.
C1_Idempotence ==
    pc = "recompiled" =>
        /\ Returned(second.result)
        /\ second.result.nodes = output.nodes
        /\ second.result.edges = output.edges

\* C2: the output of compile on a valid document holds every input node
\* exactly once and nothing else, and every input edge exactly once and
\* nothing else.
C2_Totality ==
    (pc = "compiled" /\ ValidDocument(input)) =>
        /\ Returned(output)
        /\ IsPermutation(input.nodes, output.nodes)
        /\ IsPermutation(input.edges, output.edges)

\* C3: a valid document and the same document with its node array or its
\* edge array permuted compile to identical node and edge sequences.
C3_OrderIndependence ==
    pc = "permuted" =>
        /\ Returned(second.result)
        /\ second.result.nodes = output.nodes
        /\ second.result.edges = output.edges

-----------------------------------------------------------------------------
(* Properties of the integrity check                                       *)

NodeIdSet(d) == Range(NodeIds(d.nodes))

EdgeIds(d) == [i \in 1..Len(d.edges) |-> normalizedId(d.edges[i], "id")]

\* the node's trimmed id is that of an earlier node
RepeatsNode(d, i) == \E j \in 1..(i - 1) : NodeIds(d.nodes)[j] = NodeIds(d.nodes)[i]

\* the edge's trimmed id is that of an earlier edge
RepeatsEdge(d, k) == \E j \in 1..(k - 1) : EdgeIds(d)[j] = EdgeIds(d)[k]

\* the integrity errors node i has
NodeViolations(d, i) ==
    LET id == NodeIds(d.nodes)[i]
    IN  (IF id = <<>> THEN {[text |-> "node missing id", ids |-> <<>>]} ELSE {})
        \cup (IF id # <<>> /\ RepeatsNode(d, i)
              THEN {[text |-> "duplicate node id: ", ids |-> <<id>>]} ELSE {})

\* the integrity errors edge k has
EdgeViolations(d, k) ==
    LET id == EdgeIds(d)[k]
        from == normalizedId(d.edges[k], "fromNode")
        to == normalizedId(d.edges[k], "toNode")
    IN  (IF id = <<>> THEN {[text |-> "edge missing id", ids |-> <<>>]} ELSE {})
        \cup (IF id # <<>> /\ RepeatsEdge(d, k)
              THEN {[text |-> "duplicate edge id: ", ids |-> <<id>>]} ELSE {})
        \cup (IF from = <<>> \/ to = <<>>
              THEN {[text |-> "edge missing fromNode/toNode", ids |-> <<id>>]}
              ELSE {})
        \cup (IF from # <<>> /\ from \notin NodeIdSet(d)
              THEN {[text |-> "edge references missing fromNode: ",
                     ids |-> <<id, from>>]} ELSE {})
        \cup (IF to # <<>> /\ to \notin NodeIdSet(d)
              THEN {[text |-> "edge references missing toNode: ",
                     ids |-> <<id, to>>]} ELSE {})

Min(S) == CHOOSE m \in S : \A k \in S : m <= k

\* position of the first node with a violation, 0 when every node is sound
FirstBadNode(d) ==
    LET bad == {i \in 1..Len(d.nodes) : NodeViolations(d, i) # {}}
    IN  IF bad = {} THEN 0 ELSE Min(bad)

\* position of the first edge with a violation, 0 when every edge is sound
FirstBadEdge(d) ==
    LET bad == {k \in 1..Len(d.edges) : EdgeViolations(d, k) # {}}
    IN  IF bad = {} THEN 0 ELSE Min(bad)

\* the errors of the first violating element in scan order: nodes, then edges
FirstViolations(d) ==
    IF FirstBadNode(d) # 0 THEN NodeViolations(d, FirstBadNode(d))
    ELSE IF FirstBadEdge(d) # 0 THEN EdgeViolations(d, FirstBadEdge(d))
    ELSE {}

\* C4: compile returns a document exactly when the input has no integrity
\* violation; otherwise it throws an error of the first violating node or
\* edge in scan order (nodes first) and returns nothing.
C4_FailFast ==
    pc = "compiled" =>
        IF FirstViolations(input) = {}
        THEN Returned(output) /\ ~Threw(output)
        ELSE /\ Threw(output)
             /\ ~Returned(output)
             /\ output.error \in FirstViolations(input)

\* a call that threw on the second edge after two sound nodes and one sound edge
C4_Witness ==
    /\ pc = "compiled"
    /\ Threw(output)
    /\ FirstBadNode(input) = 0
    /\ Len(input.nodes) = 2
    /\ FirstBadEdge(input) = 2

DuplicatedNodeIds(d) ==
    {NodeIds(d.nodes)[i] : i \in {j \in 1..Len(d.nodes) :
                                     NodeIds(d.nodes)[j] # <<>> /\ RepeatsNode(d, j)}}

DuplicatedEdgeIds(d) ==
    {EdgeIds(d)[k] : k \in {j \in 1..Len(d.edges) :
                               EdgeIds(d)[j] # <<>> /\ RepeatsEdge(d, j)}}

\* C5 as stated: whenever two nodes (or two edges) share an id, compile
\* throws an error whose message contains a duplicated id, whatever else
\* the document holds.
C5_DuplicateAlwaysNamed ==
    (pc = "compiled" /\ DuplicatedNodeIds(input) \cup DuplicatedEdgeIds(input) # {}) =>
        /\ Threw(output)
        /\ \E id \in DuplicatedNodeIds(input) \cup DuplicatedEdgeIds(input) :
               id \in Range(output.error.ids)

\* C5 amended: when the first node or edge with a violation in scan order
\* repeats the id of an earlier node (resp. edge), compile throws an error
\* whose message contains that id, whatever the settings.
C5_FirstDuplicateNamed ==
    pc = "compiled" =>
        /\ (FirstBadNode(input) # 0 /\ RepeatsNode(input, FirstBadNode(input))
                /\ NodeIds(input.nodes)[FirstBadNode(input)] # <<>>) =>
               /\ Threw(output)
               /\ NodeIds(input.nodes)[FirstBadNode(input)] \in Range(output.error.ids)
        /\ (FirstBadNode(input) = 0 /\ FirstBadEdge(input) # 0
                /\ RepeatsEdge(input, FirstBadEdge(input))
                /\ EdgeIds(input)[FirstBadEdge(input)] # <<>>) =>
               /\ Threw(output)
               /\ EdgeIds(input)[FirstBadEdge(input)] \in Range(output.error.ids)

\* a call on sound nodes whose second node repeats the first one's trimmed id
C5_Witness ==
    /\ pc = "compiled"
    /\ FirstBadNode(input) = 2
    /\ RepeatsNode(input, 2)
    /\ input.nodes[1].id # input.nodes[2].id
    /\ Threw(output)

\* the edges with a sound id of their own and an endpoint that is no node id
DanglingEdges(d) ==
    {k \in 1..Len(d.edges) :
        /\ EdgeIds(d)[k] # <<>>
        /\ \A j \in 1..Len(d.edges) : j # k => EdgeIds(d)[j] # EdgeIds(d)[k]
        /\ \/ normalizedId(d.edges[k], "fromNode") \notin NodeIdSet(d)
           \/ normalizedId(d.edges[k], "toNode") \notin NodeIdSet(d)}

\* C6 as stated: with sound node ids, an edge with a sound id and an endpoint
\* that is no node id makes compile throw an error naming that edge's id and
\* the missing node id.
C6_DanglingAlwaysNamed ==
    (pc = "compiled" /\ FirstBadNode(input) = 0 /\ DanglingEdges(input) # {}) =>
        /\ Threw(output)
        /\ \E k \in DanglingEdges(input) :
               /\ EdgeIds(input)[k] \in Range(output.error.ids)
               /\ \E end \in {"fromNode", "toNode"} :
                      /\ normalizedId(input.edges[k], end) \notin NodeIdSet(input)
                      /\ normalizedId(input.edges[k], end) \in Range(output.error.ids)

\* C6 amended: with sound node ids, when the first edge with a violation in
\* scan order has a sound id of its own and non-empty fromNode and toNode,
\* compile throws an error naming that edge's id and the missing node id:
\* the fromNode when it is no node id, otherwise the toNode.
C6_FirstDanglingNamed ==
    (/\ pc = "compiled"
     /\ FirstBadNode(input) = 0
     /\ FirstBadEdge(input) # 0
     /\ EdgeIds(input)[FirstBadEdge(input)] # <<>>
     /\ ~RepeatsEdge(input, FirstBadEdge(input))
     /\ normalizedId(input.edges[FirstBadEdge(input)], "fromNode") # <<>>
     /\ normalizedId(input.edges[FirstBadEdge(input)], "toNode") # <<>>) =>
        LET e == input.edges[FirstBadEdge(input)]
            from == normalizedId(e, "fromNode")
            to == normalizedId(e, "toNode")
        IN  /\ Threw(output)
            /\ output.error.ids =
                   <<normalizedId(e, "id"),
                     IF from \notin NodeIdSet(input) THEN from ELSE to>>

\* a call whose only violation is an edge from a node to an id no node has
C6_Witness ==
    /\ pc = "compiled"
    /\ FirstBadNode(input) = 0
    /\ FirstBadEdge(input) # 0
    /\ DanglingEdges(input) = {FirstBadEdge(input)}
    /\ normalizedId(input.edges[FirstBadEdge(input)], "fromNode") \in NodeIdSet(input)
    /\ normalizedId(input.edges[FirstBadEdge(input)], "toNode") # <<>>
    /\ Threw(output)

-----------------------------------------------------------------------------
(* Containment in the flattened output                                     *)

\* every border of the node's rectangle is strictly within the group's
StrictlyInside(node, group) ==
    /\ Num(node, "x") > Num(group, "x")
    /\ Num(node, "y") > Num(group, "y")
    /\ Num(node, "x") + Num(node, "width") < Num(group, "x") + Num(group, "width")
    /\ Num(node, "y") + Num(node, "height") < Num(group, "y") + Num(group, "height")

ChildIds(parentMap, S) ==
    UNION {{normalizedId(c, "id") : c \in Range(parentMap[p])} :
              p \in S \cap DOMAIN parentMap}

RECURSIVE Reach(_, _, _)
Reach(parentMap, S, fuel) ==
    IF fuel = 0 THEN S
    ELSE Reach(parentMap, S \cup ChildIds(parentMap, S), fuel - 1)

\* the ids below the group in the containment hierarchy of the document
Descendants(d, group) ==
    LET parentMap == buildHierarchy(d.nodes)
    IN  Reach(parentMap, ChildIds(parentMap, {normalizedId(group, "id")}),
              Len(d.nodes))

\* the node follows the group in out, with only the group's descendants between
InBlockOf(out, d, node, group) ==
    \E p, q \in 1..Len(out) :
        /\ out[p] = group
        /\ out[q] = node
        /\ p < q
        /\ \A k \in (p + 1)..(q - 1) :
               normalizedId(out[k], "id") \in Descendants(d, group)

\* the pairs (node, group) where the group is the only group of the document
\* that has the node strictly inside
OnlyStrictlyInside(d) ==
    {w \in (1..Len(d.nodes)) \X (1..Len(d.nodes)) :
        /\ w[1] # w[2]
        /\ IsGroup(d.nodes[w[2]])
        /\ StrictlyInside(d.nodes[w[1]], d.nodes[w[2]])
        /\ \A h \in 1..Len(d.nodes) :
               (h # w[1] /\ h # w[2] /\ IsGroup(d.nodes[h]))
                   => ~StrictlyInside(d.nodes[w[1]], d.nodes[h])}

\* the pairs (node, group) where the node is strictly inside the group and
\* no other group contains it, borders included
OnlyContainer(d) ==
    {w \in OnlyStrictlyInside(d) :
        \A h \in 1..Len(d.nodes) :
            (h # w[1] /\ h # w[2] /\ IsGroup(d.nodes[h]))
                => ~isContainedBy(d.nodes[w[1]], d.nodes[h])}

\* C7 as stated: a node strictly inside exactly one group G comes after G in
\* the output, with only descendants of G between G and it.
C7_StrictlyInsideOne ==
    (pc = "compiled" /\ Returned(output)) =>
        \A w \in OnlyStrictlyInside(input) :
            InBlockOf(output.nodes, input, input.nodes[w[1]], input.nodes[w[2]])

\* C7 amended: a node strictly inside a group G and contained, borders
\* included, in no other group comes after G in the output, with only
\* descendants of G between G and it.
C7_OnlyContainer ==
    (pc = "compiled" /\ Returned(output)) =>
        \A w \in OnlyContainer(input) :
            InBlockOf(output.nodes, input, input.nodes[w[1]], input.nodes[w[2]])

\* a compiled document where such a node follows its group at a distance
C7_Witness ==
    /\ pc = "compiled"
    /\ Returned(output)
    /\ \E w \in OnlyContainer(input) :
           \E p, q \in 1..Len(output.nodes) :
               /\ output.nodes[p] = input.nodes[w[2]]
               /\ output.nodes[q] = input.nodes[w[1]]
               /\ q > p + 1

-----------------------------------------------------------------------------
(* Properties of the export                                                *)

PureNodeFields == {"id", "type", "text", "file", "url", "label", "color", "from", "to"}

\* C8: the export maps the input nodes one to one, in order, to nodes that
\* carry no field besides id, type, text, file, url, label, color, from and
\* to; in particular none of x, y, width, height.
C8_MetadataRemoved ==
    pc = "stripped" =>
        /\ Len(pure.nodes) = Len(input.nodes)
        /\ \A i \in 1..Len(input.nodes) :
               /\ pure.nodes[i].id = input.nodes[i].id
               /\ pure.nodes[i].type = input.nodes[i].type
               /\ DOMAIN pure.nodes[i] \subseteq PureNodeFields
               /\ DOMAIN pure.nodes[i] \cap {"x", "y", "width", "height"} = {}

\* an export of several positioned nodes, one of them with embedded relations
C8_Witness ==
    /\ pc = "stripped"
    /\ Len(input.nodes) >= 2
    /\ \E i \in 1..Len(input.nodes) :
           /\ {"x", "y", "width", "height"} \subseteq DOMAIN input.nodes[i]
           /\ "to" \in DOMAIN pure.nodes[i]

\* the relation a labeled edge is expected to leave on one of its endpoints
ExpectedRelation(e, otherEnd) ==
    IF isCustomColor(e)
    THEN [node |-> normalizedId(e, otherEnd), label |-> e.label, color |-> e.color]
    ELSE [node |-> normalizedId(e, otherEnd), label |-> e.label]

\* the relations expected on the node with this id: one per labeled edge
\* whose thisEnd is the node, in input edge order
ExpectedRelations(d, nodeId, thisEnd, otherEnd) ==
    LET touching == SelectSeq(d.edges, LAMBDA e :
                        "label" \in DOMAIN e /\ normalizedId(e, thisEnd) = nodeId)
    IN  [k \in 1..Len(touching) |-> ExpectedRelation(touching[k], otherEnd)]

\* C9: every output node has a 'to' list exactly when labeled edges leave it,
\* holding one {node, label, color if custom} entry per such edge in input
\* order, and a 'from' list likewise for the labeled edges entering it,
\* whatever the edge-stripping flags are.
C9_LabelEmbedding ==
    pc = "stripped" =>
        \A i \in 1..Len(input.nodes) :
            LET nodeId == normalizedId(input.nodes[i], "id")
                to == ExpectedRelations(input, nodeId, "fromNode", "toNode")
                from == ExpectedRelations(input, nodeId, "toNode", "fromNode")
            IN  /\ ("to" \in DOMAIN pure.nodes[i]) = (to # <<>>)
                /\ to # <<>> => pure.nodes[i].to = to
                /\ ("from" \in DOMAIN pure.nodes[i]) = (from # <<>>)
                /\ from # <<>> => pure.nodes[i].from = from

\* an export where one node has two outgoing relations, one of them coloured,
\* and another node has none
C9_Witness ==
    /\ pc = "stripped"
    /\ \E i, j \in 1..Len(input.nodes) :
           /\ "to" \in DOMAIN pure.nodes[i]
           /\ Len(pure.nodes[i].to) = 2
           /\ \E k \in 1..2 : "color" \in DOMAIN pure.nodes[i].to[k]
           /\ \E k \in 1..2 : "color" \notin DOMAIN pure.nodes[i].to[k]
           /\ DOMAIN pure.nodes[j] \cap {"from", "to"} = {}

\* the top-level record expected for an unlabeled edge
ExpectedEdge(e) ==
    IF isCustomColor(e)
    THEN [id |-> e.id, fromNode |-> e.fromNode, toNode |-> e.toNode, color |-> e.color]
    ELSE [id |-> e.id, fromNode |-> e.fromNode, toNode |-> e.toNode]

\* C10: with neither flowSort nor stripEdgesWhenFlowSorted set the output
\* edges are the unlabeled input edges, in input order, reduced to {id,
\* fromNode, toNode, color if custom}; with either flag set there are none;
\* a labeled edge is never a top-level edge.
C10_TopLevelEdges ==
    pc = "stripped" =>
        LET unlabeled == SelectSeq(input.edges, LAMBDA e : "label" \notin DOMAIN e)
        IN  /\ (~settings.flowSort /\ ~settings.stripEdgesWhenFlowSorted) =>
                   pure.edges = [k \in 1..Len(unlabeled) |-> ExpectedEdge(unlabeled[k])]
            /\ (settings.flowSort \/ settings.stripEdgesWhenFlowSorted) =>
                   pure.edges = <<>>
            /\ \A k \in 1..Len(pure.edges) : \A j \in 1..Len(input.edges) :
                   "label" \in DOMAIN input.edges[j] => pure.edges[k].id # input.edges[j].id

\* an export with both flags off that keeps an unlabeled edge and drops a
\* labeled one
C10_Witness ==
    /\ pc = "stripped"
    /\ ~settings.flowSort
    /\ ~settings.stripEdgesWhenFlowSorted
    /\ Len(pure.edges) = 1
    /\ Len(input.edges) = 2

\* the input colour, trimmed, is non-empty and not made of digits only
IsCustomColour(obj) ==
    /\ "color" \in DOMAIN obj
    /\ Trim(obj.color) # <<>>
    /\ \E i \in 1..Len(Trim(obj.color)) :
           Trim(obj.color)[i] \notin {"0", "1", "2", "3", "4", "5", "6", "7", "8", "9"}

\* the output record carries the colour of the input record exactly when that
\* colour is custom, and then verbatim
ColourKept(out, in) ==
    /\ ("color" \in DOMAIN out) = IsCustomColour(in)
    /\ "color" \in DOMAIN out => out.color = in.color

\* the labeled edges of d whose thisEnd is the node, in input order
LabeledAt(d, nodeId, thisEnd) ==
    SelectSeq(d.edges, LAMBDA e :
        "label" \in DOMAIN e /\ normalizedId(e, thisEnd) = nodeId)

\* C11: in the export a node, a top-level edge and an embedded relation carry
\* a color exactly when the input colour, trimmed, is non-empty and not made
\* of digits only, and then the input value verbatim; a colour such as "3"
\* is dropped.
C11_PaletteSuppression ==
    pc = "stripped" =>
        LET unlabeled == SelectSeq(input.edges, LAMBDA e : "label" \notin DOMAIN e)
        IN  /\ \A i \in 1..Len(input.nodes) :
                   LET nodeId == normalizedId(input.nodes[i], "id")
                       out == pure.nodes[i]
                       leaving == LabeledAt(input, nodeId, "fromNode")
                       entering == LabeledAt(input, nodeId, "toNode")
                   IN  /\ ColourKept(out, input.nodes[i])
                       /\ "to" \in DOMAIN out =>
                              /\ Len(out.to) = Len(leaving)
                              /\ \A k \in 1..Len(leaving) :
                                     ColourKept(out.to[k], leaving[k])
                       /\ "from" \in DOMAIN out =>
                              /\ Len(out.from) = Len(entering)
                              /\ \A k \in 1..Len(entering) :
                                     ColourKept(out.from[k], entering[k])
            /\ \A k \in 1..Len(pure.edges) : ColourKept(pure.edges[k], unlabeled[k])

\* an export that drops the digit colour of a node and of a relation, drops
\* a blank colour, and keeps a custom colour on a node and a top-level edge
C11_Witness ==
    /\ pc = "stripped"
    /\ \E i, j, g \in 1..Len(input.nodes) :
           /\ "color" \in DOMAIN input.nodes[i]
           /\ Trim(input.nodes[i].color) = <<"3">>
           /\ "color" \notin DOMAIN pure.nodes[i]
           /\ "color" \in DOMAIN pure.nodes[j]
           /\ pure.nodes[j].color # Trim(pure.nodes[j].color)
           /\ "color" \in DOMAIN input.nodes[g]
           /\ Trim(input.nodes[g].color) = <<>>
           /\ "color" \notin DOMAIN pure.nodes[g]
    /\ \E k \in 1..Len(pure.edges) : "color" \in DOMAIN pure.edges[k]
    /\ \E i \in 1..Len(input.nodes) :
           /\ "from" \in DOMAIN pure.nodes[i]
           /\ \E k \in 1..Len(pure.nodes[i].from) :
                  "color" \notin DOMAIN pure.nodes[i].from[k]
    /\ \E k \in 1..Len(input.edges) :
           "label" \in DOMAIN input.edges[k] /\ "color" \in DOMAIN input.edges[k]

-----------------------------------------------------------------------------
(* Properties of flow-aware sorting                                        *)

\* the directed edges the document's arrows stand for, as <<from, to>> pairs:
\* none for an edge without arrows or with arrows on both ends, to -> from
\* for an arrow on the from side only, from -> to otherwise
Directed(d) ==
    LET Arrow(e, end) == end \in DOMAIN e /\ e[end] = "arrow"
        ToArrow(e) == "toEnd" \notin DOMAIN e \/ e.toEnd = "arrow"
        es == {d.edges[k] : k \in 1..Len(d.edges)}
    IN  {<<normalizedId(e, "toNode"), normalizedId(e, "fromNode")>> :
            e \in {f \in es : Arrow(f, "fromEnd") /\ ~ToArrow(f)}}
        \cup {<<normalizedId(e, "fromNode"), normalizedId(e, "toNode")>> :
            e \in {f \in es : ~Arrow(f, "fromEnd") /\ ToArrow(f)}}

\* the ids reachable from S along the pairs of E in at most fuel steps
RECURSIVE Closure(_, _, _)
Closure(E, S, fuel) ==
    IF fuel = 0 THEN S
    ELSE Closure(E, S \cup {e[2] : e \in {f \in E : f[1] \in S}}, fuel - 1)

\* the pairs of E between members of the group lie on no cycle
Acyclic(E, members) ==
    LET inside == {e \in E : e[1] \in members /\ e[2] \in members}
    IN  \A id \in members :
            id \notin Closure(inside, {e[2] : e \in {f \in inside : f[1] = id}},
                              Cardinality(members))

\* the lists of nodes of the document, in input order
NodeLists(d) ==
    {SelectSeq(d.nodes, LAMBDA n : normalizedId(n, "id") \in S) :
        S \in SUBSET Range(NodeIds(d.nodes))}

\* the flow groups built for every list of nodes of the compiled document
FlowGroupsOf(d) ==
    UNION {Range(buildFlowGroups(ns, d.edges, NodePositions(d.nodes))) :
              ns \in NodeLists(d)}

\* the predecessors of a node inside its flow group
Predecessors(d, group, id) ==
    {e[1] : e \in {f \in Directed(d) : f[2] = id /\ f[1] \in Range(group.nodes)}}

\* C12: in a flow group whose directed edges form no cycle a node without
\* predecessor has flowOrder 0, any other node has 1 + the largest flowOrder
\* of its predecessors, and so flowOrder grows along every directed edge.
C12_FlowOrderMonotone ==
    pc = "compiled" =>
        \A group \in FlowGroupsOf(input) :
            Acyclic(Directed(input), Range(group.nodes)) =>
                /\ DOMAIN group.flowOrder = Range(group.nodes)
                /\ \A id \in Range(group.nodes) :
                       LET preds == Predecessors(input, group, id)
                       IN  group.flowOrder[id] =
                               IF preds = {} THEN 0
                               ELSE 1 + Max({group.flowOrder[u] : u \in preds})
                /\ \A e \in Directed(input) :
                       e[1] \in Range(group.nodes) /\ e[2] \in Range(group.nodes) =>
                           group.flowOrder[e[1]] < group.flowOrder[e[2]]

\* a compiled document with the chain a -> b -> c and the shortcut a -> c in
\* one flow group: c has predecessors of flowOrder 0 and 1
C12_Witness ==
    /\ pc = "compiled"
    /\ Returned(output)
    /\ \E group \in FlowGroupsOf(input) :
           /\ Acyclic(Directed(input), Range(group.nodes))
           /\ \E id \in Range(group.nodes) :
                  /\ {group.flowOrder[u] : u \in Predecessors(input, group, id)} = {0, 1}
                  /\ group.flowOrder[id] = 2

-----------------------------------------------------------------------------
(* Properties of the edge classification                                   *)

\* the endpoint style an edge states, "absent" when it states none
EndOf(e, end) == IF end \in DOMAIN e THEN e[end] ELSE "absent"

\* C13: an edge is directional exactly when fromEnd is 'arrow' or toEnd is
\* 'arrow', or toEnd is absent and fromEnd is not 'arrow'; so fromEnd 'none'
\* alone is directional, 'none' on both ends is not, and fromEnd 'arrow'
\* with toEnd 'none' is.
C13_Directional ==
    pc = "classified" =>
        \A k \in 1..Len(input.edges) :
            LET from == EndOf(input.edges[k], "fromEnd")
                to == EndOf(input.edges[k], "toEnd")
            IN  /\ pure[k] = (\/ from = "arrow"
                              \/ to = "arrow"
                              \/ (to = "absent" /\ from # "arrow"))
                /\ (from = "none" /\ to = "absent") => pure[k]
                /\ (from = "none" /\ to = "none") => ~pure[k]
                /\ (from = "arrow" /\ to = "none") => pure[k]

\* a classification of an edge with fromEnd 'none' alone beside one with
\* 'none' on both ends
C13_Witness ==
    /\ pc = "classified"
    /\ \E k, j \in 1..Len(input.edges) :
           /\ EndOf(input.edges[k], "fromEnd") = "none"
           /\ EndOf(input.edges[k], "toEnd") = "absent"
           /\ pure[k]
           /\ EndOf(input.edges[j], "fromEnd") = "none"
           /\ EndOf(input.edges[j], "toEnd") = "none"
           /\ ~pure[j]

-----------------------------------------------------------------------------
(* Properties of the node comparator                                       *)

\* the comparator compile hands to nodes.sort for a list of nodes: the sign
\* of comparefn(ns[i], ns[j])
ComparatorOn(d, ns, s, isWithinGroup) ==
    LET flowGroups == IF s.flowSortNodes
                      THEN buildFlowGroups(ns, d.edges, NodePositions(d.nodes))
                      ELSE <<>>
    IN  [i \in 1..Len(ns) |-> [j \in 1..Len(ns) |->
            NodeCompare(ns[i], ns[j], s, flowGroups, isWithinGroup)]]

\* cmp never ties two distinct elements, is antisymmetric and transitive
IsTotalOrder(cmp) ==
    LET n == Len(cmp)
    IN  /\ \A i, j \in 1..n : i # j => cmp[i][j] # 0
        /\ \A i, j \in 1..n : Sign(cmp[i][j]) = -Sign(cmp[j][i])
        /\ \A i, j, k \in 1..n : (cmp[i][j] < 0 /\ cmp[j][k] < 0) => cmp[i][k] < 0

\* C14: on the nodes of a valid document the node comparator is a total
\* order whatever the settings and the level: it never returns 0 for two
\* distinct nodes, cmp(a, b) and cmp(b, a) have opposite signs, and it is
\* transitive.
C14_TotalOrder ==
    (pc = "compiled" /\ Returned(output)) =>
        \A ns \in NodeLists(input) : \A isWithinGroup \in BOOLEAN :
            IsTotalOrder(ComparatorOn(input, ns, settings, isWithinGroup))

-----------------------------------------------------------------------------
(* Frame properties                                                        *)

C15_WitnessExport ==
    /\ pc = "stripped twice"
    /\ \E k \in 1..Len(input.edges) : IsLabeled(input.edges[k])
    /\ \E i \in 1..Len(input.nodes) : "from" \in DOMAIN pure.nodes[i]

-----------------------------------------------------------------------------
(* Properties of the import                                                *)

\* the records of a source: its lines that are not blank
Records(lines) ==
    SelectSeq(lines, LAMBDA line : \E i \in 1..Len(line) : line[i] # " ")

\* the record is one of the JSON texts: {} or 1, blanks around allowed
IsJsonRecord(line) ==
    LET text == SelectSeq(line, LAMBDA c : c # " ")
    IN  text \in {<<"{", "}">>, <<"1">>}

\* C16: when some record of a .jsonl source is not JSON the import throws
\* 'Invalid JSON on line N', N the 1-based position of the first such
\* record among the records, and returns no canvas, whatever the other
\* records are; when every record is JSON it returns a canvas.
C16_JsonlFailFast ==
    pc = "imported" =>
        LET records == Records(input.lines)
            invalid == {i \in 1..Len(records) : ~IsJsonRecord(records[i])}
        IN  IF invalid = {}
            THEN Returned(output)
            ELSE /\ Threw(output)
                 /\ ~Returned(output)
                 /\ output.error.text = "Invalid JSON on line "
                 /\ output.error.ids = <<Min(invalid)>>

\* an import that fails on its second record, which stands on the third
\* line after a blank one, with a valid record before it
C16_Witness ==
    /\ pc = "imported"
    /\ Threw(output)
    /\ output.error.ids = <<2>>
    /\ Len(input.lines) = 3
    /\ IsJsonRecord(input.lines[1])
    /\ Records(<<input.lines[2]>>) = <<>>
    /\ ~IsJsonRecord(input.lines[3])

-----------------------------------------------------------------------------
(* Properties of the containment hierarchy                                 *)

\* a numeric field of a node, 0 when the node does not state it
Field(n, f) == IF f \in DOMAIN n THEN n[f] ELSE 0

\* the rectangle of inner lies within the rectangle of outer, borders included
RectContains(outer, inner) ==
    /\ Field(outer, "x") <= Field(inner, "x")
    /\ Field(outer, "y") <= Field(inner, "y")
    /\ Field(inner, "x") + Field(inner, "width")
           <= Field(outer, "x") + Field(outer, "width")
    /\ Field(inner, "y") + Field(inner, "height")
           <= Field(outer, "y") + Field(outer, "height")

\* the positions of the groups, other than the node itself, that contain the
\* node at position i
Containers(d, i) ==
    {k \in 1..Len(d.nodes) :
        /\ k # i
        /\ d.nodes[k].type = "group"
        /\ RectContains(d.nodes[k], d.nodes[i])}

\* the position of the innermost of them: least area, first in input order
Innermost(d, i) ==
    CHOOSE k \in Containers(d, i) :
        \A j \in Containers(d, i) :
            LET ak == Field(d.nodes[k], "width") * Field(d.nodes[k], "height")
                aj == Field(d.nodes[j], "width") * Field(d.nodes[j], "height")
            IN  ak < aj \/ (ak = aj /\ k <= j)

\* how many times the children list of the group with this id holds the node
TimesChildOf(parentMap, groupId, node) ==
    IF groupId \in DOMAIN parentMap
    THEN Cardinality({k \in 1..Len(parentMap[groupId]) : parentMap[groupId][k] = node})
    ELSE 0

\* C17: the containment map lists every node, group or not, under at most
\* one group: the group other than itself that contains its rectangle
\* (missing numbers read as 0) and has the least area, the first such group
\* in input order on equal area; a node no other group contains is listed
\* nowhere.
C17_InnermostParent ==
    (pc = "compiled" /\ Returned(output)) =>
        LET parentMap == buildHierarchy(input.nodes)
            groupIds == {normalizedId(input.nodes[k], "id") :
                            k \in {j \in 1..Len(input.nodes) :
                                      input.nodes[j].type = "group"}}
        IN  /\ DOMAIN parentMap \subseteq groupIds
            /\ \A i \in 1..Len(input.nodes) : \A g \in groupIds :
                   TimesChildOf(parentMap, g, input.nodes[i]) =
                       IF /\ Containers(input, i) # {}
                          /\ g = normalizedId(input.nodes[Innermost(input, i)], "id")
                       THEN 1 ELSE 0

\* a compiled document where a node that states no width has two containers
\* of equal area and is listed under the one that comes first in the input
C17_Witness ==
    /\ pc = "compiled"
    /\ Returned(output)
    /\ \E i, j, k \in 1..Len(input.nodes) :
           /\ {j, k} \subseteq Containers(input, i)
           /\ "width" \notin DOMAIN input.nodes[i]
           /\ j < k
           /\ Area(input.nodes[j]) = Area(input.nodes[k])
           /\ TimesChildOf(buildHierarchy(input.nodes),
                           normalizedId(input.nodes[j], "id"), input.nodes[i]) = 1

\* the position of the node's parent in the input, 0 for a root
ParentPos(d, i) == IF Containers(d, i) = {} THEN 0 ELSE Innermost(d, i)

\* the positions met going up from the node's parent, at most fuel steps
RECURSIVE Ancestors(_, _, _)
Ancestors(d, i, fuel) ==
    IF fuel = 0 \/ ParentPos(d, i) = 0 THEN {}
    ELSE {ParentPos(d, i)} \cup Ancestors(d, ParentPos(d, i), fuel - 1)

\* the positions of the nodes of the subtree below the node at position g
Subtree(d, g) == {i \in 1..Len(d.nodes) : g \in Ancestors(d, i, Len(d.nodes))}

\* the position in the input of a node of the output
InputPos(d, n) == CHOOSE i \in 1..Len(d.nodes) : d.nodes[i] = n

\* C18: in the output (a) the nodes of a group's containment subtree are
\* the nodes right after the group, as one block; (b) every root node that
\* is no group precedes every root group; (c) among the children of one
\* group every child that is no group precedes every child group.
C18_Preorder ==
    (pc = "compiled" /\ Returned(output)) =>
        LET out == output.nodes
            At(p) == InputPos(input, out[p])
        IN  /\ \A p \in 1..Len(out) : out[p] \in Range(input.nodes)
            /\ \A p \in 1..Len(out) :
                   out[p].type = "group" =>
                       LET size == Cardinality(Subtree(input, At(p)))
                       IN  /\ p + size <= Len(out)
                           /\ {At(k) : k \in (p + 1)..(p + size)}
                                  = Subtree(input, At(p))
            /\ \A p, q \in 1..Len(out) :
                   (/\ ParentPos(input, At(p)) = ParentPos(input, At(q))
                    /\ out[p].type # "group"
                    /\ out[q].type = "group") => p < q

\* a compiled document whose output is a root group followed by its block:
\* a child that is no group, then a child group
C18_Witness ==
    /\ pc = "compiled"
    /\ Returned(output)
    /\ Len(output.nodes) = 3
    /\ Len(input.nodes) = 3
    /\ output.nodes # input.nodes
    /\ output.nodes[1].type = "group"
    /\ output.nodes[2].type # "group"
    /\ output.nodes[3].type = "group"
    /\ Subtree(input, InputPos(input, output.nodes[1]))
           = {InputPos(input, output.nodes[2]), InputPos(input, output.nodes[3])}

\* a compiled document whose output has a root node that is no group before
\* a root group and its child
C18_WitnessRoots ==
    /\ pc = "compiled"
    /\ Returned(output)
    /\ Len(output.nodes) = 3
    /\ output.nodes[1].type # "group"
    /\ output.nodes[2].type = "group"
    /\ ParentPos(input, InputPos(input, output.nodes[1])) = 0
    /\ ParentPos(input, InputPos(input, output.nodes[3]))
           = InputPos(input, output.nodes[2])

-----------------------------------------------------------------------------
(* Properties of the order within a level                                  *)

\* the order of two strings: -1, 0 or 1
StringOrder(a, b) == localeCompare(a, b)

\* a and b are in ascending order of the keys: the first key on which they
\* differ, if any, has a before b; keys[k] is -1, 0 or 1
Ascending(keys) ==
    \A k \in 1..Len(keys) :
        (keys[k] > 0) => \E j \in 1..(k - 1) : keys[j] < 0

\* the baseline keys of a against b: y, x, type priority (links last),
\* lower-case colour if the colour sort is on, semantic key
BaselineKeys(a, b, s) ==
    <<Sign(Field(a, "y") - Field(b, "y")),
      Sign(Field(a, "x") - Field(b, "x")),
      Sign((IF a.type = "link" THEN 1 ELSE 0) - (IF b.type = "link" THEN 1 ELSE 0)),
      IF s.colorSortNodes THEN StringOrder(getNodeColor(a), getNodeColor(b)) ELSE 0,
      StringOrder(getNodeSortKey(a), getNodeSortKey(b))>>

\* C19: with flowSortNodes and semanticSortOrphans off, two root nodes that
\* are both groups or both no groups stand in the output in ascending order
\* of (y, x, type priority, lower-case colour when colorSortNodes is on,
\* semantic key), a key counting only when all the keys before it are equal.
C19_BaselineOrder ==
    (/\ pc = "compiled"
     /\ Returned(output)
     /\ ~settings.flowSortNodes
     /\ ~settings.semanticSortOrphans) =>
        LET out == output.nodes
        IN  \A p, q \in 1..Len(out) :
                (/\ p < q
                 /\ out[p] \in Range(input.nodes)
                 /\ out[q] \in Range(input.nodes)
                 /\ ParentPos(input, InputPos(input, out[p])) = 0
                 /\ ParentPos(input, InputPos(input, out[q])) = 0
                 /\ (out[p].type = "group") = (out[q].type = "group"))
                    => Ascending(BaselineKeys(out[p], out[q], settings))

\* a compiled document with three root nodes: one placed first by its x
\* though it is a link, and a link placed after a card on the same spot
\* though its key is smaller
C19_Witness ==
    /\ pc = "compiled"
    /\ Returned(output)
    /\ ~settings.flowSortNodes
    /\ ~settings.semanticSortOrphans
    /\ Len(output.nodes) = 3
    /\ \A p \in 1..3 : output.nodes[p].type # "group"
    /\ output.nodes[1].type = "link"
    /\ Field(output.nodes[1], "x") < Field(output.nodes[2], "x")
    /\ output.nodes[2].type = "text"
    /\ output.nodes[3].type = "link"
    /\ Field(output.nodes[2], "x") = Field(output.nodes[3], "x")
    /\ StringOrder(getNodeSortKey(output.nodes[3]), getNodeSortKey(output.nodes[2])) < 0
    /\ output.nodes # input.nodes

\* a compiled document with two root groups on the same spot that the
\* colour orders against their keys
C19_WitnessColour ==
    /\ pc = "compiled"
    /\ Returned(output)
    /\ ~settings.flowSortNodes
    /\ ~settings.semanticSortOrphans
    /\ settings.colorSortNodes
    /\ \E p, q \in 1..Len(output.nodes) :
           /\ p < q
           /\ output.nodes[p].type = "group"
           /\ output.nodes[q].type = "group"
           /\ ParentPos(input, InputPos(input, output.nodes[p])) = 0
           /\ ParentPos(input, InputPos(input, output.nodes[q])) = 0
           /\ StringOrder(getNodeColor(output.nodes[p]), getNodeColor(output.nodes[q])) < 0
           /\ StringOrder(getNodeSortKey(output.nodes[q]), getNodeSortKey(output.nodes[p])) < 0

\* the lists compile sorts as one level, as it passes them to the sort: the
\* root nodes that are no groups, the root groups, and the children of
\* each group
Levels(d) ==
    LET root(n) == ParentPos(d, InputPos(d, n)) = 0
        parentMap == buildHierarchy(d.nodes)
    IN  {SelectSeq(d.nodes, LAMBDA n : n.type # "group" /\ root(n)),
         SelectSeq(d.nodes, LAMBDA n : n.type = "group" /\ root(n))}
        \cup {parentMap[g] : g \in DOMAIN parentMap}

\* the flow keys of a against b, two nodes of one flow group: flowOrder, y,
\* x, lower-case colour if the colour sort is on, semantic key
FlowKeys(a, b, group, s) ==
    <<Sign(group.flowOrder[normalizedId(a, "id")]
             - group.flowOrder[normalizedId(b, "id")]),
      Sign(Field(a, "y") - Field(b, "y")),
      Sign(Field(a, "x") - Field(b, "x")),
      IF s.colorSortNodes THEN StringOrder(getNodeColor(a), getNodeColor(b)) ELSE 0,
      StringOrder(getNodeSortKey(a), getNodeSortKey(b))>>

\* C20: with flowSortNodes on, two nodes of one level that are no groups
\* and belong to the same flow group of that level stand in the output in
\* ascending order of (flowOrder, y, x, lower-case colour when the colour
\* sort is on, semantic key); so a node never follows a node of its flow
\* group that has a larger flowOrder.
C20_FlowOrdering ==
    (pc = "compiled" /\ Returned(output) /\ settings.flowSortNodes) =>
        LET out == output.nodes
        IN  \A level \in Levels(input) :
                \A group \in Range(buildFlowGroups(level, input.edges,
                                                    NodePositions(input.nodes))) :
                    \A p, q \in 1..Len(out) :
                        (/\ p < q
                         /\ out[p] \in Range(level)
                         /\ out[q] \in Range(level)
                         /\ out[p].type # "group"
                         /\ out[q].type # "group"
                         /\ normalizedId(out[p], "id") \in Range(group.nodes)
                         /\ normalizedId(out[q], "id") \in Range(group.nodes))
                            => Ascending(FlowKeys(out[p], out[q], group, settings))

-----------------------------------------------------------------------------
(* Properties of flow groups as blocks                                     *)

\* (y, x) pairs in lexicographic order
LexLess(p, q) == p[1] < q[1] \/ (p[1] = q[1] /\ p[2] < q[2])

\* the (y, x) of a node
YX(n) == <<Field(n, "y"), Field(n, "x")>>

\* the nodes of a level that are no groups, and the flow groups of the level
Plain(level) == {n \in Range(level) : n.type # "group"}

LevelGroups(d, level) == Range(buildFlowGroups(level, d.edges, NodePositions(d.nodes)))

In(n, group) == normalizedId(n, "id") \in Range(group.nodes)

\* the anchor of every flow group of the level is the smallest (y, x) of
\* its members
AnchorsAreMinima(d, level) ==
    \A group \in LevelGroups(d, level) :
        LET members == {n \in Range(level) : In(n, group)}
        IN  /\ \E n \in members : YX(n) = <<group.minY, group.minX>>
            /\ \A n \in members : ~LexLess(YX(n), <<group.minY, group.minX>>)

\* in the output an ungrouped node of the level stands on the side of each
\* flow group that its (y, x) has of the group's anchor
UngroupedByAnchor(out, d, level) ==
    \A group \in LevelGroups(d, level) :
        \A p, q \in 1..Len(out) :
            (/\ out[p] \in Plain(level)
             /\ out[q] \in Plain(level)
             /\ In(out[p], group)
             /\ \A other \in LevelGroups(d, level) : ~In(out[q], other))
                => /\ LexLess(YX(out[q]), <<group.minY, group.minX>>) => q < p
                   /\ LexLess(<<group.minY, group.minX>>, YX(out[q])) => p < q

\* in the output the members of a flow group with the smaller anchor stand
\* before the members of a flow group with the larger anchor
GroupsByAnchor(out, d, level) ==
    \A g1, g2 \in LevelGroups(d, level) :
        \A p, q \in 1..Len(out) :
            (/\ out[p] \in Plain(level)
             /\ out[q] \in Plain(level)
             /\ In(out[p], g1)
             /\ In(out[q], g2)
             /\ LexLess(<<g1.minY, g1.minX>>, <<g2.minY, g2.minX>>))
                => p < q

\* in the output no other node of the level stands between two members of
\* a flow group
NotInterleaved(out, d, level) ==
    \A group \in LevelGroups(d, level) :
        \A p, q, r \in 1..Len(out) :
            (/\ p < r
             /\ r < q
             /\ {out[p], out[q], out[r]} \subseteq Plain(level)
             /\ In(out[p], group)
             /\ In(out[q], group))
                => In(out[r], group)

\* C21: with flowSortNodes on, the anchor of a flow group is the smallest
\* (y, x) of its members; among the nodes of one level that are no groups,
\* an ungrouped node with a smaller (y, x) than a group's anchor precedes
\* all members of the group and one with a larger (y, x) follows them all,
\* the members of the group with the smaller anchor precede the members of
\* the group with the larger one, and the members of a group are not
\* interleaved with other nodes.
C21_FlowBlocks ==
    (pc = "compiled" /\ Returned(output) /\ settings.flowSortNodes) =>
        \A level \in Levels(input) :
            /\ AnchorsAreMinima(input, level)
            /\ UngroupedByAnchor(output.nodes, input, level)
            /\ GroupsByAnchor(output.nodes, input, level)
            /\ NotInterleaved(output.nodes, input, level)

-----------------------------------------------------------------------------
(* Properties of buildFlowGroups                                           *)

\* the links of the undirected graph on the ids of S: both directions of
\* every directional edge with its two ends in S
Links(d, S) ==
    LET from(e) == EndOf(e, "fromEnd")
        to(e) == EndOf(e, "toEnd")
        directional == {e \in Range(d.edges) :
                           \/ from(e) = "arrow"
                           \/ to(e) = "arrow"
                           \/ (to(e) = "absent" /\ from(e) # "arrow")}
        inside == {e \in directional : /\ normalizedId(e, "fromNode") \in S
                                       /\ normalizedId(e, "toNode") \in S}
    IN  {<<normalizedId(e, "fromNode"), normalizedId(e, "toNode")>> : e \in inside}
        \cup {<<normalizedId(e, "toNode"), normalizedId(e, "fromNode")>> : e \in inside}

\* a path of links joins u and v
Joined(d, S, u, v) == v \in Closure(Links(d, S), {u}, Cardinality(S))

\* the flow groups buildFlowGroups returns for a list of nodes of the document
GroupsOn(d, ns) == buildFlowGroups(ns, d.edges, NodePositions(d.nodes))

\* C22: for every list of nodes of the document the flow groups are the
\* connected components of two or more nodes of the undirected graph of the
\* directional edges between nodes of the list, edges with arrows on both
\* ends included: two nodes share a group iff a path joins them, a node is
\* in at most one group, and a node joined to no other node is in none.
C22_FlowComponents ==
    pc = "compiled" =>
        \A ns \in NodeLists(input) :
            LET S == Range(NodeIds(ns))
                groups == GroupsOn(input, ns)
                Of(u) == {g \in 1..Len(groups) : u \in Range(groups[g].nodes)}
            IN  /\ \A u, v \in S :
                       u # v => ((Of(u) \cap Of(v) # {}) <=> Joined(input, S, u, v))
                /\ \A u \in S : Cardinality(Of(u)) <= 1
                /\ \A u \in S :
                       (\A v \in S \ {u} : ~Joined(input, S, u, v)) => Of(u) = {}
                /\ \A g \in 1..Len(groups) :
                       /\ Range(groups[g].nodes) \subseteq S
                       /\ Cardinality(Range(groups[g].nodes)) >= 2
                       /\ Len(groups[g].nodes) = Cardinality(Range(groups[g].nodes))

\* a compiled document where c and d are one flow group through the edge
\* with arrows on both ends alone, beside a node that is in no group
C22_Witness ==
    /\ pc = "compiled"
    /\ Returned(output)
    /\ Range(input.edges) = {ArrowBothCD}
    /\ Len(input.nodes) = 3
    /\ Len(GroupsOn(input, input.nodes)) = 1
    /\ Range(GroupsOn(input, input.nodes)[1].nodes) = {<<"c">>, <<"d">>}

\* a compiled document where d, with an arrow to itself only, is in no group
C22_WitnessLoop ==
    /\ pc = "compiled"
    /\ Returned(output)
    /\ LoopD \in Range(input.edges)
    /\ Len(input.nodes) = 3
    /\ Len(GroupsOn(input, input.nodes)) = 1
    /\ <<"d">> \notin Range(GroupsOn(input, input.nodes)[1].nodes)

\* the adjacency, outgoing and incoming maps buildFlowGroups derives for a
\* list of nodes of the document
MapsOn(d, ns) ==
    LET ids == NodeIds(ns)
        empty == [id \in Range(ids) |-> <<>>]
    IN  BuildAdjacency(d.edges, 1, Range(ids),
            [adjacency |-> empty, outgoing |-> empty, incoming |-> empty])

DirectionMaps(d) == MapsOn(d, d.nodes)

\* the directed pairs the claim gives an edge: none for an edge that is not
\* directional or has arrows on both ends (toEnd absent counting as an
\* arrow), toNode -> fromNode for fromEnd 'arrow' with a toEnd that is no
\* arrow, fromNode -> toNode otherwise
PairsOf(e) ==
    LET from == EndOf(e, "fromEnd")
        to == EndOf(e, "toEnd")
        toIsArrow == to \in {"arrow", "absent"}
        directional == from = "arrow" \/ to = "arrow" \/ (to = "absent" /\ from # "arrow")
    IN  IF ~directional \/ (from = "arrow" /\ toIsArrow) THEN {}
        ELSE IF from = "arrow"
        THEN {<<normalizedId(e, "toNode"), normalizedId(e, "fromNode")>>}
        ELSE {<<normalizedId(e, "fromNode"), normalizedId(e, "toNode")>>}

\* C23: the directed pairs used for layering are: none for an edge whose
\* two ends are arrows, an absent toEnd counting as an arrow; toNode ->
\* fromNode for an edge with fromEnd 'arrow' and a toEnd that is no arrow;
\* fromNode -> toNode for every other directional edge.
C23_ArrowEndIsTarget ==
    (pc = "compiled" /\ Returned(output)) =>
        LET maps == DirectionMaps(input)
            pairs == UNION {PairsOf(e) : e \in Range(input.edges)}
        IN  \A u, v \in Range(NodeIds(input.nodes)) :
                /\ (v \in Range(maps.outgoing[u])) <=> (<<u, v>> \in pairs)
                /\ (u \in Range(maps.incoming[v])) <=> (<<u, v>> \in pairs)

\* a compiled document with an edge from a to b stating fromEnd 'arrow'
\* alone, which gives no pair, and an edge from b to a with fromEnd 'arrow'
\* and toEnd 'none', which gives a -> b
C23_Witness ==
    /\ pc = "compiled"
    /\ Returned(output)
    /\ Range(input.edges) =
           {StyledEdge(<<"e", "1">>, <<"a">>, <<"b">>, "arrow", "absent"),
            StyledEdge(<<"e", "2">>, <<"b">>, <<"a">>, "arrow", "none")}
    /\ Range(DirectionMaps(input).outgoing[<<"a">>]) = {<<"b">>}
    /\ Range(DirectionMaps(input).outgoing[<<"b">>]) = {}

\* the members of the group the layering pass gave no depth, in the order
\* of the component
Unreached(group, topo) == SelectSeq(group.nodes, LAMBDA id : id \notin DOMAIN topo)

\* C24: every member of every flow group has a flowOrder that is a natural
\* number, cycles or not; a member the layering pass gave a depth keeps it;
\* the members it gave none get, in the order of the component, the largest
\* flowOrder so far plus 1, which is above every depth of the layering
\* pass.
C24_ResidualCycles ==
    pc = "compiled" =>
        \A ns \in NodeLists(input) :
            \A group \in Range(GroupsOn(input, ns)) :
                LET topo == LayeringPass(group.nodes, MapsOn(input, ns))
                    top == Max({topo[id] : id \in DOMAIN topo} \cup {0})
                    rest == Unreached(group, topo)
                IN  /\ DOMAIN group.flowOrder = Range(group.nodes)
                    /\ \A id \in Range(group.nodes) : group.flowOrder[id] \in Nat
                    /\ \A id \in DOMAIN topo : group.flowOrder[id] = topo[id]
                    /\ \A k \in 1..Len(rest) :
                           /\ group.flowOrder[rest[k]] = top + k
                           /\ \A id \in DOMAIN topo :
                                  group.flowOrder[rest[k]] > topo[id]

\* a compiled document whose flow group {a, b} is the cycle a -> b -> a, with
\* no node of in-degree zero: the members get 1 and 2
C24_Witness ==
    /\ pc = "compiled"
    /\ Returned(output)
    /\ \E group \in Range(GroupsOn(input, input.nodes)) :
           /\ Range(group.nodes) = {<<"a">>, <<"b">>}
           /\ LayeringPass(group.nodes, MapsOn(input, input.nodes)) = <<>>
           /\ {group.flowOrder[id] : id \in Range(group.nodes)} = {1, 2}

\* a compiled document with a flow group where the layering pass reaches
\* some members and leaves one on a cycle
C24_WitnessPartial ==
    /\ pc = "compiled"
    /\ Returned(output)
    /\ \E group \in Range(GroupsOn(input, input.nodes)) :
           LET topo == LayeringPass(group.nodes, MapsOn(input, input.nodes))
           IN  /\ DOMAIN topo # {}
               /\ Unreached(group, topo) # <<>>

-----------------------------------------------------------------------------
(* Properties of the edge order                                            *)

\* the flow depths of two node ids compared: 0 unless the flow sort is on
\* and both ids have a flow depth
DepthOrder(groups, s, idA, idB) ==
    LET Of(id) == {g \in 1..Len(groups) : id \in Range(groups[g].nodes)}
        Depth(id) == groups[CHOOSE g \in Of(id) : TRUE].flowOrder[id]
    IN  IF s.flowSortNodes /\ Of(idA) # {} /\ Of(idB) # {}
        THEN Sign(Depth(idA) - Depth(idB))
        ELSE 0

\* the edge keys of a against b: flow depth of the source, flow depth of
\* the target, source y and x, target y and x, lower-case colour if the
\* colour sort is on, id
EdgeKeys(a, b, d, s) ==
    LET groups == GroupsOn(d, d.nodes)
        at(e, end, f) ==
            Field(d.nodes[CHOOSE i \in 1..Len(d.nodes) :
                              normalizedId(d.nodes[i], "id") = normalizedId(e, end)], f)
    IN  <<DepthOrder(groups, s, normalizedId(a, "fromNode"), normalizedId(b, "fromNode")),
          DepthOrder(groups, s, normalizedId(a, "toNode"), normalizedId(b, "toNode")),
          Sign(at(a, "fromNode", "y") - at(b, "fromNode", "y")),
          Sign(at(a, "fromNode", "x") - at(b, "fromNode", "x")),
          Sign(at(a, "toNode", "y") - at(b, "toNode", "y")),
          Sign(at(a, "toNode", "x") - at(b, "toNode", "x")),
          IF s.colorSortEdges THEN StringOrder(getEdgeColor(a), getEdgeColor(b)) ELSE 0,
          StringOrder(normalizedId(a, "id"), normalizedId(b, "id"))>>

\* the arrangements of the elements of a sequence
Arrangements(q) == {r \in InjSeqs(Range(q), Len(q)) : Len(r) = Len(q)}

\* C25: the edges of compile's output are in ascending order of the key
\* (flow depth of the source, flow depth of the target, both with the flow
\* sort only; source y, x; target y, x; lower-case colour unless the colour
\* sort is off; edge id), the order is strict, and the output edge sequence
\* is the same for every order of the input edges.
C25_EdgeOrder ==
    (pc = "compiled" /\ Returned(output)) =>
        /\ \A p, q \in 1..Len(output.edges) :
               p < q =>
                   LET keys == EdgeKeys(output.edges[p], output.edges[q], input, settings)
                   IN  Ascending(keys) /\ \E k \in 1..Len(keys) : keys[k] # 0
        /\ \A es \in Arrangements(input.edges) :
               compileCanvasAll([input EXCEPT !.edges = es], settings).edges
                   = output.edges

-----------------------------------------------------------------------------
(* Properties of the order within a group                                  *)

\* the within-group keys of a against b: type priority (links last),
\* lower-case colour if the colour sort is on, semantic key
WithinKeys(a, b, s) ==
    <<Sign((IF a.type = "link" THEN 1 ELSE 0) - (IF b.type = "link" THEN 1 ELSE 0)),
      IF s.colorSortNodes THEN StringOrder(getNodeColor(a), getNodeColor(b)) ELSE 0,
      StringOrder(getNodeSortKey(a), getNodeSortKey(b))>>

\* the keys of a child group a against a child group b: y, x, type
\* priority, semantic key
ChildGroupKeys(a, b) ==
    <<Sign(Field(a, "y") - Field(b, "y")),
      Sign(Field(a, "x") - Field(b, "x")),
      Sign((IF a.type = "link" THEN 1 ELSE 0) - (IF b.type = "link" THEN 1 ELSE 0)),
      StringOrder(getNodeSortKey(a), getNodeSortKey(b))>>

\* the position in the input of the parent of a node of the output
ParentOf(d, n) == ParentPos(d, InputPos(d, n))

\* C26: with flowSortNodes off, (a) the children of one group that are no
\* groups stand in the output in ascending order of (type priority,
\* lower-case colour when colorSortNodes is on, semantic key), whatever
\* their x and y; (b) so do the root nodes that are no groups when
\* semanticSortOrphans is on; (c) the child groups of one group stand in
\* ascending order of (y, x, type priority, semantic key), the colour not
\* counting.
C26_WithinGroupOrder ==
    (pc = "compiled" /\ Returned(output) /\ ~settings.flowSortNodes) =>
        LET out == output.nodes
        IN  \A p, q \in 1..Len(out) :
                (/\ p < q
                 /\ out[p] \in Range(input.nodes)
                 /\ out[q] \in Range(input.nodes)
                 /\ ParentOf(input, out[p]) = ParentOf(input, out[q]))
                    => /\ (/\ out[p].type # "group"
                           /\ out[q].type # "group"
                           /\ \/ ParentOf(input, out[p]) # 0
                              \/ settings.semanticSortOrphans)
                              => Ascending(WithinKeys(out[p], out[q], settings))
                       /\ (/\ out[p].type = "group"
                           /\ out[q].type = "group"
                           /\ ParentOf(input, out[p]) # 0)
                              => Ascending(ChildGroupKeys(out[p], out[q]))

\* a compiled document with two cards inside the frame: the card lower and
\* further right comes first, by its colour or by its text
C26_Witness ==
    /\ pc = "compiled"
    /\ Returned(output)
    /\ ~settings.flowSortNodes
    /\ \E p, q \in 1..Len(output.nodes) :
           /\ p < q
           /\ output.nodes[p].type = "text"
           /\ output.nodes[q].type = "text"
           /\ ParentOf(input, output.nodes[p]) # 0
           /\ ParentOf(input, output.nodes[p]) = ParentOf(input, output.nodes[q])
           /\ Field(output.nodes[q], "y") < Field(output.nodes[p], "y")
           /\ Field(output.nodes[q], "x") < Field(output.nodes[p], "x")

\* a compiled document with semanticSortOrphans on where the link in the
\* top left corner follows a root card
C26_WitnessOrphans ==
    /\ pc = "compiled"
    /\ Returned(output)
    /\ ~settings.flowSortNodes
    /\ settings.semanticSortOrphans
    /\ \E p, q \in 1..Len(output.nodes) :
           /\ p < q
           /\ output.nodes[p].type = "text"
           /\ output.nodes[q] = WithinLink
           /\ ParentOf(input, output.nodes[p]) = 0
           /\ ParentOf(input, output.nodes[q]) = 0

\* a compiled document with the colour sort on and two groups inside the
\* frame: they stand in the order of their places, or on the same spot in
\* the order of their labels, against the order of their colours
C26_WitnessChildGroups ==
    /\ pc = "compiled"
    /\ Returned(output)
    /\ ~settings.flowSortNodes
    /\ settings.colorSortNodes
    /\ \E p, q \in 1..Len(output.nodes) :
           /\ p < q
           /\ output.nodes[p].type = "group"
           /\ output.nodes[q].type = "group"
           /\ ParentOf(input, output.nodes[p]) # 0
           /\ ParentOf(input, output.nodes[p]) = ParentOf(input, output.nodes[q])
           /\ StringOrder(getNodeColor(output.nodes[q]), getNodeColor(output.nodes[p])) < 0

-----------------------------------------------------------------------------
(* Properties of the plugin's compileFile                                  *)

\* C27: under any interleaving of modify events and commands, at most one
\* execution of compileFile is between its guard and its finally block, so
\* at most one is between its read and its write; a call that arrived
\* while another was executing returned without reading or writing; and
\* isCompiling is false whenever no compileFile is executing, whether the
\* last one wrote, returned early or failed.
C27_CompileGuard ==
    /\ Cardinality(Executing) <= 1
    /\ \A i \in 1..Len(calls) : calls[i].busy => calls[i].pc = "returned"
    /\ Executing = {} => ~isCompiling

\* a call was turned away while another was between its read and its
\* write, and calls have ended in each of the three ways
C27_Witness ==
    /\ \E i, j \in 1..Len(calls) :
           /\ i < j
           /\ calls[i].pc = "writing"
           /\ calls[j].busy
           /\ calls[j].pc = "returned"
    /\ isCompiling

C27_WitnessEnds ==
    /\ {"compiled", "same", "failed"} \subseteq {calls[i].pc : i \in 1..Len(calls)}
    /\ Executing = {}
    /\ ~isCompiling

\* the calls of compileFile that have written the file
Writes == {i \in 1..Len(calls) : calls[i].pc \in {"written", "compiled"}}

\* for each choice of settings, the texts the file can hold that are in
\* compiled form
CompiledTexts ==
    [s \in PluginSettings |->
        {t \in DOMAIN Decisions[s] : Decisions[s][t].outcome = "same"}]

\* no compileFile executes and the file holds the text compileFile writes
\* for it
Quiescent ==
    /\ Executing = {}
    /\ ~isCompiling
    /\ file \in CompiledTexts[settings]

\* C28: with autoCompile on, after one modification from outside of a valid
\* canvas file and none after it, the plugin writes the file at most once
\* (the modify event raised by its own write leads to no further write),
\* and in the end no compile is in progress and the file holds the
\* canonical serialization.
C28_Quiescence ==
    /\ [](Cardinality(Writes) <= 1)
    /\ [](edits = 1 => <>[]Quiescent)

\* the part of C28 about the number of writes alone
C28_AtMostOneWrite == Cardinality(Writes) <= 1

\* the part of C28 about the end alone
C28_InTheEndQuiescent == [](edits = 1 => <>[]Quiescent)

\* the text compileFile leaves in a file that holds the given text; none
\* for a text it fails on
CompiledForm(raw, s) ==
    IF Decisions[s][raw].outcome = "write" THEN Decisions[s][raw].serialized
    ELSE IF Decisions[s][raw].outcome = "same" THEN raw
    ELSE [nothing |-> TRUE]

\* C29: every write of compileFile stores the compiled form of the text
\* the file holds at the moment of the write, so a modification made
\* between the read and the write is not replaced by the result computed
\* from the older text.
C29_NoLostUpdate ==
    \A i \in Writes :
        calls[i].serialized = CompiledForm(calls[i].replaced, settings)

\* C29, last part: a modify event that arrives while a compile is in
\* progress still leads to the file being compiled: with autoCompile on,
\* once no event waits and no compileFile executes, the text the file
\* holds has been read or written by a call of compileFile.
C29_ModifyLeadsToCompile ==
    (/\ settings.autoCompile
     /\ edits > 0
     /\ events = 0
     /\ Executing = {}) =>
        \E i \in 1..Len(calls) :
            calls[i].raw = file \/ calls[i].serialized = file

-----------------------------------------------------------------------------
(* Properties of the import layout                                         *)

\* the two rectangles have a point in common
Overlap(a, b) ==
    /\ Field(a, "x") <= Field(b, "x") + Field(b, "width")
    /\ Field(b, "x") <= Field(a, "x") + Field(a, "width")
    /\ Field(a, "y") <= Field(b, "y") + Field(b, "height")
    /\ Field(b, "y") <= Field(a, "y") + Field(a, "height")

\* the position in the output of the card group of the node at position i:
\* the last group before it
CardOf(out, i) == Max({g \in 1..i : out[g].type = "group"})

\* every field node is a child of its own card group in the hierarchy, once,
\* and of no other group
ChildOfOwnCard(out, parentMap) ==
    \A i, g \in 1..Len(out) :
        (out[i].type # "group" /\ out[g].type = "group")
            => TimesChildOf(parentMap, out[g].id, out[i])
                   = IF g = CardOf(out, i) THEN 1 ELSE 0

\* C30: in every document the layout produces, for any number of cards and
\* any heights of the fields, the node ids are pairwise distinct, the
\* rectangles of two card groups do not overlap, and the rectangle of every
\* field node lies inside the rectangle of its own card group and inside no
\* other group; compile's validation accepts the nodes and its hierarchy
\* makes each field node a child of its own card and of no other.
C30_LayoutNests ==
    (pc = "laid out") =>
        LET out == output.nodes
        IN  /\ \A i, j \in 1..Len(out) : i # j => out[i].id # out[j].id
            /\ \A g, h \in 1..Len(out) :
                   (g # h /\ out[g].type = "group" /\ out[h].type = "group")
                       => ~Overlap(out[g], out[h])
            /\ \A i, g \in 1..Len(out) :
                   (out[i].type # "group" /\ out[g].type = "group")
                       => (RectContains(out[g], out[i]) <=> (g = CardOf(out, i)))
            /\ ~Threw(ScanNodes(out, 1, {}))
            /\ ChildOfOwnCard(out, buildHierarchy(out))

\* more cards than columns: a card with fields lies under another card of
\* its column
C30_Witness ==
    /\ pc = "laid out"
    /\ Len(input.cards) > LAYOUT.cols
    /\ \E g, h, i \in 1..Len(output.nodes) :
           /\ output.nodes[g].type = "group"
           /\ output.nodes[h].type = "group"
           /\ output.nodes[g].x = output.nodes[h].x
           /\ output.nodes[g].y + output.nodes[g].height < output.nodes[h].y
           /\ output.nodes[i].type = "text"
           /\ CardOf(output.nodes, i) = h

====
